---------------------------- MODULE Spec2Model ----------------------------
(***************************************************************************)
(* A model of UEx-CiteHub's crawl scheduler, its store and its merger.     *)
(*                                                                         *)
(* The store is the SQLite database of src/server/database.py, reached     *)
(* through ONE connection opened with isolation_level=None: a statement    *)
(* outside BEGIN..COMMIT is durable at once, a statement inside is durable *)
(* at COMMIT, and closing the connection drops what is uncommitted.  `db`  *)
(* is the durable content, `view` what the connection reads (durable plus  *)
(* uncommitted), `txn` the task that opened the transaction.               *)
(*                                                                         *)
(* The scheduler is Scheduler._crawl of src/server/crawler/scheduler.py,   *)
(* one action per await point.  Names the sources leave unresolved are     *)
(* read as the call they evidently make: CRAWLERS[key] is the adapter of   *)
(* that key, save_crawler_step(step) saves the step of the selected row.   *)
(* The adapters' base class (Crawler.step: decode the stored state, call   *)
(* _step, turn an exception into a retry Step, fix_authors) is not among   *)
(* the sources and is modelled from the specification.                     *)
(*                                                                         *)
(* Python values: Optional[T] is a sequence of length <= 1, a dict or a    *)
(* JSON object is a function from its keys, a dataclass is a record.       *)
(***************************************************************************)
EXTENDS Integers, Sequences, FiniteSets, TLC

----------------------------------------------------------------------------
(* Bounds of the exploration *)

\* adapter steps the scheduler may begin
MaxSteps == 2
\* HTTP requests served
MaxRequests == 1
\* process restarts
MaxRestarts == 1
\* merge cycles the merger may begin
MaxMerges == 2
\* seconds the scheduler may sleep through after the run began
MaxTime == 70
\* seconds a call of an adapter takes
RequestTime == 2

----------------------------------------------------------------------------
(* Program constants *)

MAX_SLEEP == 60
AUTO_DELAY == 24 * 60 * 60
FULL_CYCLE_DELAY == 7 * 24 * 60 * 60
JITTER_DIVISOR == 20
ERROR_DELAYS == <<1, 10, 60, 10 * 60, 60 * 60, 24 * 60 * 60>>

----------------------------------------------------------------------------
(* Python values *)

None == <<>>
Some(x) == <<x>>
IsNone(o) == Len(o) = 0
Get(o) == o[1]
OrElse(o, d) == IF IsNone(o) THEN d ELSE o[1]

EmptyDict == [k \in {} |-> None]
DictSet(d, k, v) == [x \in (DOMAIN d) \cup {k} |-> IF x = k THEN v ELSE d[x]]
DictDel(d, k) == [x \in (DOMAIN d) \ {k} |-> d[x]]

Min(a, b) == IF a < b THEN a ELSE b
Max(a, b) == IF a > b THEN a ELSE b

RECURSIVE Concat(_)
Concat(ss) == IF ss = <<>> THEN <<>> ELSE Head(ss) \o Concat(Tail(ss))

----------------------------------------------------------------------------
(* storage.py: records and their content-addressed paths *)

\* hashlib.sha256(identifier).hexdigest(): a digest, injective for all
\* practical purposes and never equal to its input
filename_for(identifier) == "sha256(" \o identifier \o ")"

Author(id, full_name) == [id |-> id, full_name |-> full_name]

AuthorName(a) == a.full_name

AuthorPath(a) ==
    IF ~IsNone(a.id) /\ Get(a.id) # ""
    THEN "author/" \o filename_for(Get(a.id))
    ELSE "author/uniden/" \o filename_for(AuthorName(a))

\* authors: a list whose elements are embedded Author records
\* ([author |-> a]) or, after fix_authors, paths ([path |-> p])
Publication(id, name, authors) == [id |-> id, name |-> name, authors |-> authors]

\* (for contrast: one directory for publications with and without id)
PubPathFlat(p) ==
    IF ~IsNone(p.id) /\ Get(p.id) # ""
    THEN "pub/" \o filename_for(Get(p.id))
    ELSE "pub/" \o filename_for(p.name)
PubPath(p) ==
    IF ~IsNone(p.id) /\ Get(p.id) # ""
    THEN "pub/" \o filename_for(Get(p.id))
    ELSE "pub/uniden/" \o filename_for(p.name)

Embedded(a) == [author |-> a]
PathRef(p) == [path |-> p]
IsAuthor(x) == "author" \in DOMAIN x

----------------------------------------------------------------------------
(* crawler/step.py: Step *)

Step(delay, stage, authors, self_publications, citations, error) ==
    [delay |-> delay, stage |-> stage, authors |-> authors,
     self_publications |-> self_publications, citations |-> citations,
     error |-> error]

\* Step(): every field at its default
\* (for contrast: a Step whose default delay is a day)
DefaultStepOfADay == Step(AUTO_DELAY, None, <<>>, <<>>, <<>>, None)
DefaultStep == Step(FULL_CYCLE_DELAY, None, <<>>, <<>>, <<>>, None)

\* citations is a dict {pub id: [Publication]}: a list of entries in
\* insertion order, one per key
CitEntry(pub_id, pubs) == [pub_id |-> pub_id, pubs |-> pubs]

EmbeddedAuthors(pub) ==
    LET emb == SelectSeq(pub.authors, IsAuthor)
    IN  [i \in 1..Len(emb) |-> emb[i].author]

\* list(d.values()) of the dict built by d[path] = author over `as`: one
\* entry per path, at the place of its first assignment, holding its last
RECURSIVE DictValuesFrom(_, _)
DictValuesFrom(as, i) ==
    IF i > Len(as) THEN <<>>
    ELSE LET p == AuthorPath(as[i])
             first == \A j \in 1..(i - 1) : AuthorPath(as[j]) # p
             last == CHOOSE j \in i..Len(as) :
                        /\ AuthorPath(as[j]) = p
                        /\ \A k \in (j + 1)..Len(as) : AuthorPath(as[k]) # p
         IN  (IF first THEN <<as[last]>> ELSE <<>>) \o DictValuesFrom(as, i + 1)

PathsOnly(pub) ==
    [pub EXCEPT !.authors =
        [i \in 1..Len(pub.authors) |->
            IF IsAuthor(pub.authors[i])
            THEN PathRef(AuthorPath(pub.authors[i].author))
            ELSE pub.authors[i]]]

fix_authors(step) ==
    LET cited == Concat([i \in 1..Len(step.citations) |-> step.citations[i].pubs])
        pubs == step.self_publications \o cited
        found == Concat([i \in 1..Len(pubs) |-> EmbeddedAuthors(pubs[i])])
    IN  [step EXCEPT
            !.authors = step.authors \o DictValuesFrom(found, 1),
            !.self_publications =
                [i \in 1..Len(step.self_publications) |->
                    PathsOnly(step.self_publications[i])],
            !.citations =
                [i \in 1..Len(step.citations) |->
                    [step.citations[i] EXCEPT !.pubs =
                        [j \in 1..Len(step.citations[i].pubs) |->
                            PathsOnly(step.citations[i].pubs[j])]]]]

\* json.dumps(None)
JsonNull == [k \in {"null"} |-> TRUE]

\* a stage is a dataclass instance: its variant (class) and its fields
Stage(variant, data) == [variant |-> variant, data |-> data]
asdict(stage) == stage.data

\* A nested class of an adapter's Stage, decorated with @dataclass: its
\* INDEX and its fields, which are the annotated names only; `defaults`
\* holds the fields that have a default.  The classes of the Dimensions
\* adapter go by their bare names.
StageClass(adapter, variant, index, fields, defaults) ==
    [adapter |-> adapter, variant |-> variant, index |-> index,
     fields |-> fields, defaults |-> defaults]

NoDefaults == [k \in {} |-> 0]

\* crawlers/scholar.py: known_pub_ids = List[str] is an assignment, not an
\* annotation, so it is a class attribute and no field
ScholarStages ==
    <<StageClass("scholar", "scholar.FetchFirst", 0, {}, NoDefaults),
      StageClass("scholar", "scholar.FetchPublications", 1, {}, NoDefaults),
      StageClass("scholar", "scholar.FetchSinglePublication", 2, {"offset"},
                 [k \in {"offset"} |-> 0]),
      StageClass("scholar", "scholar.FetchCitations", 3, {"offset", "cit_url"},
                 NoDefaults)>>

DimensionsStages ==
    <<StageClass("dimensions", "FetchAuthors", 0, {}, NoDefaults),
      StageClass("dimensions", "FetchPublications", 1, {"known_pub_ids", "cursor"},
                 [k \in {"known_pub_ids", "cursor"} |-> None]),
      StageClass("dimensions", "FetchCitations", 2, {"missing_pub_ids", "cursor"},
                 [k \in {"cursor"} |-> None])>>

AminerStages ==
    <<StageClass("aminer", "aminer.FetchPublications", 0, {"offset"},
                 [k \in {"offset"} |-> 0]),
      StageClass("aminer", "aminer.FetchCitations", 1, {"pub_offset", "cit_offset"},
                 [k \in {"pub_offset", "cit_offset"} |-> 0])>>

ExploreStages ==
    <<StageClass("ieeexplore", "ieeexplore.FetchPublications", 0, {}, NoDefaults),
      StageClass("ieeexplore", "ieeexplore.FetchCitations", 1, {"missing_pub_ids"},
                 NoDefaults)>>

AcademicsStages ==
    <<StageClass("academics", "academics.FetchQueries", 0, {}, NoDefaults),
      StageClass("academics", "academics.FetchPublications", 1,
                 {"pub_count", "pub_expr", "cit_expr", "query", "offset"},
                 [k \in {"offset"} |-> 0]),
      StageClass("academics", "academics.FetchCitations", 2,
                 {"cit_expr", "query", "offset"}, [k \in {"offset"} |-> 0])>>

ResearchGateStages ==
    <<StageClass("researchgate", "researchgate.FetchPublications", 0, {}, NoDefaults),
      StageClass("researchgate", "researchgate.FetchToken", 1, {"known_pub_ids"},
                 NoDefaults),
      StageClass("researchgate", "researchgate.FetchCitations", 2,
                 {"rg_token", "sid", "missing_pub_ids", "cit_offset"},
                 [k \in {"cit_offset"} |-> 0])>>

StageClasses ==
    ScholarStages \o DimensionsStages \o AminerStages \o ExploreStages
        \o AcademicsStages \o ResearchGateStages

StageClassNamed(variant) ==
    StageClasses[CHOOSE i \in 1..Len(StageClasses) : StageClasses[i].variant = variant]

\* The __init__ that @dataclass generates, called with keyword arguments:
\* Some(instance), or None when it raises TypeError for a keyword that is
\* no field or for a field without default that is not given
Construct(variant, kwargs) ==
    LET cls == StageClassNamed(variant)
    IN  IF /\ DOMAIN kwargs \subseteq cls.fields
           /\ cls.fields \ DOMAIN cls.defaults \subseteq DOMAIN kwargs
        THEN Some(Stage(variant,
                [k \in cls.fields |->
                    IF k \in DOMAIN kwargs THEN kwargs[k] ELSE cls.defaults[k]]))
        ELSE None

\* self.stage.INDEX
StageIndex(variant) ==
    CASE variant = "FetchAuthors" -> 0
      [] variant = "FetchPublications" -> 1
      [] variant = "FetchCitations" -> 2
      [] OTHER -> StageClassNamed(variant).index

\* (for contrast: a stage_as_json that leaves the error counter out)
stage_as_json_without_error(step) ==
    IF IsNone(step.stage) THEN JsonNull
    ELSE DictSet(asdict(Get(step.stage)), "_index", StageIndex(Get(step.stage).variant))
\* json.dumps of the stage's fields with _index and, when error is set, _error
stage_as_json(step) ==
    IF IsNone(step.stage) THEN JsonNull
    ELSE LET data == DictSet(asdict(Get(step.stage)), "_index",
                             StageIndex(Get(step.stage).variant))
         IN  IF ~IsNone(step.error)
             THEN DictSet(data, "_error", Get(step.error))
             ELSE data

\* due is int(time.time() + delay + jitter) with the jitter
\* random.uniform(-r, r), r = delay * 0.05: what the two ends of the range
\* add to an integral time.time() + delay
Jitters(delay) ==
    {-((delay + JITTER_DIVISOR - 1) \div JITTER_DIVISOR), delay \div JITTER_DIVISOR}
\* (for contrast: a due that is the time of the step)
DueValuesNow(step, t) == {t}
\* (for contrast: a due of twice the jitter range around the delay)
DueValuesWide(step, t) == {t + step.delay + 2 * j + j : j \in Jitters(step.delay)}
DueValues(step, t) == {t + step.delay + j : j \in Jitters(step.delay)}

----------------------------------------------------------------------------
(* crawler/crawlers/dimensions.py: the Dimensions adapter *)

\* urllib.parse.urlparse(url) and parse_qs(url.query), as far as
\* author_id_from_url reads them
Url(netloc, path, researcher) ==
    [netloc |-> netloc, path |-> path, researcher |-> researcher]

URL_EMPTY == Url("", "", None)
URL_A == Url("app.dimensions.ai", "/discover/publication", Some("rA"))
URL_B == Url("app.dimensions.ai", "/discover/publication", Some("rB"))
URL_BAD == Url("example.org", "/discover/publication", Some("rA"))

\* None when an assert fails or the query has no and_facet_researcher
author_id_from_url(url) ==
    IF url.netloc # "app.dimensions.ai" THEN None
    ELSE IF url.path # "/discover/publication" THEN None
    ELSE url.researcher

\* validate_field(key, value): TRUE when it returns, FALSE when it raises
validate_field(key, value) ==
    key = "url" /\ ~IsNone(author_id_from_url(value))

FetchAuthors == Stage("FetchAuthors", EmptyDict)
FetchPublications(known_pub_ids, cursor) ==
    Stage("FetchPublications",
          [known_pub_ids |-> known_pub_ids, cursor |-> cursor])
FetchCitations(missing_pub_ids, cursor) ==
    Stage("FetchCitations",
          [missing_pub_ids |-> missing_pub_ids, cursor |-> cursor])

\* The remote service: researcher rA has two publications, served one per
\* page, and the second cites the first; researcher rB has none.
Affiliation(researcher_id, name) == [researcher_id |-> researcher_id, name |-> name]
DocP1 == [id |-> "p1", title |-> "T1",
          affiliations |-> <<Affiliation("rA", "Ann A")>>,
          author_list |-> <<"Ann A">>]
DocP2 == [id |-> "p2", title |-> "T2",
          affiliations |-> <<Affiliation("rA", "Ann A"), Affiliation("", "Bob B")>>,
          author_list |-> <<"Ann A", "Bob B">>]

Page(docs, next_cursor) == [docs |-> docs, next_cursor |-> next_cursor]

\* preview.json
RemoteAuthor(author_id) ==
    IF author_id = "rA" THEN <<[id |-> "rA", name |-> "Ann A"]>> ELSE <<>>

\* results.json: cursor None is sent as "*"
RemotePublications(author_id, cursor) ==
    IF author_id # "rA" THEN Page(<<>>, None)
    ELSE IF IsNone(cursor) THEN Page(<<DocP1>>, Some("c1"))
    ELSE IF Get(cursor) = "c1" THEN Page(<<DocP2>>, None)
    ELSE Page(<<>>, None)

\* cited-by.json
RemoteCitations(pub_id, cursor) ==
    IF pub_id = "p1" /\ IsNone(cursor) THEN Page(<<DocP2>>, None)
    ELSE Page(<<>>, None)

\* Other remote services, by number; service 1 is the one above.  On
\* service 2 the citations of p1 come in two pages, p2 has one citation,
\* and a cursor sent with another publication than its own finds nothing.
\* Service 3 answers every request for a further page of publications with
\* no documents and the cursor it was sent.
DocP3 == [id |-> "p3", title |-> "T3", affiliations |-> <<>>, author_list |-> <<"Cy C">>]
DocP4 == [id |-> "p4", title |-> "T4", affiliations |-> <<>>, author_list |-> <<"Di D">>]
DocP5 == [id |-> "p5", title |-> "T5", affiliations |-> <<>>, author_list |-> <<"Ed E">>]

DimensionsRemotes == {1, 2, 3}

RemotePublicationsOf(r, author_id, cursor) ==
    IF r = 3 /\ ~IsNone(cursor) THEN Page(<<>>, cursor)
    ELSE RemotePublications(author_id, cursor)

RemoteCitationsOf(r, pub_id, cursor) ==
    IF r = 1 THEN RemoteCitations(pub_id, cursor)
    ELSE IF pub_id = "p1" /\ IsNone(cursor) THEN Page(<<DocP3>>, Some("k1"))
    ELSE IF pub_id = "p1" /\ cursor = Some("k1") THEN Page(<<DocP4>>, None)
    ELSE IF pub_id = "p2" /\ IsNone(cursor) THEN Page(<<DocP5>>, None)
    ELSE Page(<<>>, None)

adapt_authors(data) ==
    [i \in 1..Len(data) |-> Author(Some(data[i].id), data[i].name)]

\* a["researcher_id"] or None
adapt_publications(data) ==
    [i \in 1..Len(data.docs) |->
        LET doc == data.docs[i]
        IN  Publication(Some(doc.id), doc.title,
                [j \in 1..Len(doc.affiliations) |->
                    Embedded(Author(
                        IF doc.affiliations[j].researcher_id = "" THEN None
                        ELSE Some(doc.affiliations[j].researcher_id),
                        doc.affiliations[j].name))])]

adapt_citations(data) ==
    [i \in 1..Len(data.docs) |->
        LET doc == data.docs[i]
        IN  Publication(Some(doc.id), doc.title,
                [j \in 1..Len(doc.author_list) |->
                    Embedded(Author(None, doc.author_list[j]))])]

PubIds(pubs) == [i \in 1..Len(pubs) |-> Get(pubs[i].id)]

\* CrawlDimensions._step(values, stage, session) against the remote service
\* r: Some(step), or None when it raises.  `fails`: the one request of this
\* call raises.
\* Python lists are objects: `value` is what the expression evaluates to,
\* `left` the list that was its left operand, as it is afterwards
\* (for contrast: a.extend(b), which grows the list a itself)
ListExtend(a, b) == [value |-> a \o b, left |-> a \o b]
\* a + b: a new list
ListPlus(a, b) == [value |-> a \o b, left |-> a]
\* a[1:]: a new list
ListFrom1(a) == [value |-> Tail(a), left |-> a]

DimensionsStepOn(r, values, stage, fails) ==
    IF "url" \notin DOMAIN values THEN None
    ELSE IF IsNone(author_id_from_url(values["url"])) THEN None
    ELSE
    LET user_author_id == Get(author_id_from_url(values["url"]))
    IN  CASE stage.variant = "FetchAuthors" ->
                IF fails THEN None
                ELSE Some(Step(10 * 60, Some(FetchPublications(None, None)),
                               adapt_authors(RemoteAuthor(user_author_id)),
                               <<>>, <<>>, None))
          [] stage.variant = "FetchPublications" ->
                IF fails THEN None
                ELSE
                LET data == RemotePublicationsOf(r, user_author_id, stage.data["cursor"])
                    cursor == data.next_cursor
                    self_publications == adapt_publications(data)
                    known_pub_ids ==
                        ListPlus(OrElse(stage.data["known_pub_ids"], <<>>),
                                 PubIds(self_publications)).value
                IN  IF ~IsNone(cursor)
                    THEN Some(Step(5 * 60,
                                   Some(FetchPublications(Some(known_pub_ids), cursor)),
                                   <<>>, self_publications, <<>>, None))
                    ELSE Some(Step(10 * 60,
                                   Some(FetchCitations(known_pub_ids, None)),
                                   <<>>, self_publications, <<>>, None))
          [] stage.variant = "FetchCitations" ->
                IF stage.data["missing_pub_ids"] = <<>> THEN Some(DefaultStep)
                ELSE IF fails THEN None
                ELSE
                LET pub_id == Head(stage.data["missing_pub_ids"])
                    data == RemoteCitationsOf(r, pub_id, stage.data["cursor"])
                    cursor == data.next_cursor
                    citations == adapt_citations(data)
                IN  IF ~IsNone(cursor)
                    THEN Some(Step(5 * 60,
                                   Some(FetchCitations(
                                       Tail(stage.data["missing_pub_ids"]), cursor)),
                                   <<>>, <<>>, <<CitEntry(pub_id, citations)>>, None))
                    ELSE Some(Step(10 * 60,
                                   Some(FetchCitations(
                                       Tail(stage.data["missing_pub_ids"]), None)),
                                   <<>>, <<>>, <<CitEntry(pub_id, citations)>>, None))

DimensionsStep(values, stage, fails) == DimensionsStepOn(1, values, stage, fails)

\* the stage object that _step was given, as the call leaves it: the
\* statements of _step that touch its lists are the + of FetchPublications
\* (on a fresh [] when known_pub_ids is None) and the [1:] of FetchCitations
DimensionsStageAfter(r, values, stage, fails) ==
    IF "url" \notin DOMAIN values THEN stage
    ELSE IF IsNone(author_id_from_url(values["url"])) THEN stage
    ELSE IF fails THEN stage
    ELSE
    LET user_author_id == Get(author_id_from_url(values["url"]))
    IN  CASE stage.variant = "FetchAuthors" -> stage
          [] stage.variant = "FetchPublications" ->
                LET data == RemotePublicationsOf(r, user_author_id, stage.data["cursor"])
                    ids == PubIds(adapt_publications(data))
                IN  IF IsNone(stage.data["known_pub_ids"]) THEN stage
                    ELSE [stage EXCEPT !.data["known_pub_ids"] =
                                Some(ListPlus(Get(@), ids).left)]
          [] stage.variant = "FetchCitations" ->
                IF stage.data["missing_pub_ids"] = <<>> THEN stage
                ELSE [stage EXCEPT !.data["missing_pub_ids"] = ListFrom1(@).left]

----------------------------------------------------------------------------
(* The adapters' base class, modelled from the specification (4.1, 4.2    *)
(* steps 4 to 6, 6 "Stored task-state format", 7)                         *)

\* the variant with the given INDEX
VariantOf(index) ==
    CASE index = 0 -> "FetchAuthors"
      [] index = 1 -> "FetchPublications"
      [] index = 2 -> "FetchCitations"

\* initial_stage(): the zero-state
initial_stage == FetchAuthors

\* state: None, or Some(the decoded task_json object)
DecodeState(state) ==
    IF IsNone(state) THEN [stage |-> initial_stage, error |-> 0]
    ELSE LET j == Get(state)
         IN  [stage |-> Stage(VariantOf(j["_index"]),
                              DictDel(DictDel(j, "_index"), "_error")),
              error |-> IF "_error" \in DOMAIN j THEN j["_error"] ELSE 0]

\* the same for the stored state of any adapter: the class with that INDEX
\* is called with the remaining fields; None when the call raises
DecodeStage(adapter, j) ==
    LET i == CHOOSE i \in 1..Len(StageClasses) :
                /\ StageClasses[i].adapter = adapter
                /\ StageClasses[i].index = j["_index"]
        built == Construct(StageClasses[i].variant,
                           DictDel(DictDel(j, "_index"), "_error"))
    IN  IF IsNone(built) THEN None
        ELSE Some([stage |-> Get(built),
                   error |-> IF "_error" \in DOMAIN j THEN j["_error"] ELSE 0])

\* the retry Step of a failed call: same stage, next rung of the ladder
ErrorStep(stage, error) ==
    LET e == Min(error + 1, Len(ERROR_DELAYS) - 1)
    IN  Step(ERROR_DELAYS[e + 1], Some(stage), <<>>, <<>>, <<>>, Some(e))

\* (for contrast: a step that hands the error count on when it succeeds)
CrawlerStepCarrying(values, state, fails) ==
    LET d == DecodeState(state)
        r == DimensionsStep(values, d.stage, fails)
    IN  IF IsNone(r) THEN ErrorStep(d.stage, d.error)
        ELSE [fix_authors(Get(r)) EXCEPT
                !.error = IF d.error > 0 THEN Some(d.error) ELSE None]
\* Crawler.step(values, state, session)
CrawlerStep(values, state, fails) ==
    LET d == DecodeState(state)
        r == DimensionsStep(values, d.stage, fails)
    IN  IF IsNone(r) THEN ErrorStep(d.stage, d.error)
        ELSE fix_authors(Get(r))

----------------------------------------------------------------------------
(* database.py: tables, rows and statements *)

Owners == {"u1", "u2"}

SourceRow(owner, key, values_json, task_json, due) ==
    [owner |-> owner, key |-> key, values_json |-> values_json,
     task_json |-> task_json, due |-> due]
AuthorRow(owner, source, path, full_name, id) ==
    [owner |-> owner, source |-> source, path |-> path,
     full_name |-> full_name, id |-> id]
PublicationRow(owner, source, path, by_self, name, id) ==
    [owner |-> owner, source |-> source, path |-> path, by_self |-> by_self,
     name |-> name, id |-> id]
PublicationAuthorsRow(owner, source, pub_path, author_path) ==
    [owner |-> owner, source |-> source, pub_path |-> pub_path,
     author_path |-> author_path]
CitesRow(owner, source, pub_path, cited_by) ==
    [owner |-> owner, source |-> source, pub_path |-> pub_path,
     cited_by |-> cited_by]

\* similarity is REAL; here in tenths
MergeRow(owner, source_a, source_b, pub_a, pub_b, similarity) ==
    [owner |-> owner, source_a |-> source_a, source_b |-> source_b,
     pub_a |-> pub_a, pub_b |-> pub_b, similarity |-> similarity]

\* _create_tables: the tables, empty
EmptyTables ==
    [User |-> {}, Source |-> {}, Author |-> {}, Publication |-> {},
     PublicationAuthors |-> {}, Cites |-> {}, Merge |-> {}]

\* PRIMARY KEY of each table
SourceKey(r) == <<r.owner, r.key>>
PathKey(r) == <<r.owner, r.source, r.path>>

\* FOREIGN KEY clauses, checked when a row is inserted
HasUser(d, owner) == owner \in d.User
HasSource(d, owner, key) == \E r \in d.Source : r.owner = owner /\ r.key = key
HasAuthor(d, owner, source, path) ==
    \E r \in d.Author : r.owner = owner /\ r.source = source /\ r.path = path
HasPublication(d, owner, source, path) ==
    \E r \in d.Publication : r.owner = owner /\ r.source = source /\ r.path = path

\* the rows of `rows` that a run of INSERT OR REPLACE, one per element in
\* order, leaves of them: of two rows with one primary key, the later
LastOfEach(rows) ==
    {rows[i] : i \in {i \in 1..Len(rows) :
        \A j \in (i + 1)..Len(rows) : PathKey(rows[j]) # PathKey(rows[i])}}

Replaced(table, rows) ==
    {r \in table : \A i \in 1..Len(rows) : PathKey(rows[i]) # PathKey(r)}
        \cup LastOfEach(rows)

\* a statement's outcome: ok (or sqlite3.Error) and the connection's view
Outcome(ok, d) == [ok |-> ok, d |-> d]

\* _adapt_step_publications: the citations with 0, then the self
\* publications with 1
adapt_step_publications(step) ==
    LET cited == Concat([i \in 1..Len(step.citations) |-> step.citations[i].pubs])
    IN  [i \in 1..Len(cited) |-> [pub |-> cited[i], by_self |-> 0]]
            \o [i \in 1..Len(step.self_publications) |->
                    [pub |-> step.self_publications[i], by_self |-> 1]]

\* save_crawler_step, first _insert_or_replace: Author
InsertAuthors(d, src, step) ==
    LET rows == [i \in 1..Len(step.authors) |->
                    AuthorRow(src.owner, src.key, AuthorPath(step.authors[i]),
                              step.authors[i].full_name, step.authors[i].id)]
    IN  IF rows # <<>> /\ ~(HasUser(d, src.owner) /\ HasSource(d, src.owner, src.key))
        THEN Outcome(FALSE, d)
        ELSE Outcome(TRUE, [d EXCEPT !.Author = Replaced(@, rows)])

\* second _insert_or_replace: Publication
InsertPublications(d, src, step) ==
    LET ps == adapt_step_publications(step)
        rows == [i \in 1..Len(ps) |->
                    PublicationRow(src.owner, src.key, PubPath(ps[i].pub),
                                   ps[i].by_self, ps[i].pub.name, ps[i].pub.id)]
    IN  IF rows # <<>> /\ ~(HasUser(d, src.owner) /\ HasSource(d, src.owner, src.key))
        THEN Outcome(FALSE, d)
        ELSE Outcome(TRUE, [d EXCEPT !.Publication = Replaced(@, rows)])

\* the loop of _insert_or_replace: PublicationAuthors.  An element of
\* pub.authors that is no path cannot be bound to the statement.
InsertPublicationAuthors(d, src, step) ==
    LET ps == adapt_step_publications(step)
        refs == Concat([i \in 1..Len(ps) |->
                    [j \in 1..Len(ps[i].pub.authors) |->
                        [pub_path |-> PubPath(ps[i].pub),
                         author |-> ps[i].pub.authors[j]]]])
        bound == \A i \in 1..Len(refs) : ~IsAuthor(refs[i].author)
        rows == {PublicationAuthorsRow(src.owner, src.key, refs[i].pub_path,
                                       refs[i].author.path) : i \in 1..Len(refs)}
    IN  IF ~bound THEN Outcome(FALSE, d)
        ELSE IF \E r \in rows :
                    ~(/\ HasPublication(d, r.owner, r.source, r.pub_path)
                      /\ HasAuthor(d, r.owner, r.source, r.author_path))
        THEN Outcome(FALSE, d)
        ELSE Outcome(TRUE, [d EXCEPT !.PublicationAuthors = @ \cup rows])

\* the loop of _insert_or_replace: Cites.  The cited path is that of
\* StepPublication(name="", id=cites_pub_id).
InsertCites(d, src, step) ==
    LET rows == UNION {
            {CitesRow(src.owner, src.key,
                      PubPath(Publication(Some(step.citations[i].pub_id), "", <<>>)),
                      PubPath(step.citations[i].pubs[j]))
                : j \in 1..Len(step.citations[i].pubs)}
            : i \in 1..Len(step.citations)}
    IN  IF \E r \in rows :
                ~(/\ HasPublication(d, r.owner, r.source, r.pub_path)
                  /\ HasPublication(d, r.owner, r.source, r.cited_by))
        THEN Outcome(FALSE, d)
        ELSE Outcome(TRUE, [d EXCEPT !.Cites = @ \cup rows])

\* UPDATE Source SET task_json = ?, due = ? WHERE owner = ? AND key = ?
UpdateSourceTask(d, src, task_json, due) ==
    [d EXCEPT !.Source =
        {IF SourceKey(r) = SourceKey(src)
         THEN [r EXCEPT !.task_json = task_json, !.due = due]
         ELSE r : r \in @}]

\* next_source_task: ORDER BY due ASC LIMIT 1; the rows it may return
next_source_task(d) ==
    {r \in d.Source : \A o \in d.Source : r.due <= o.due}

\* get_source_values(username): {source key: values}
get_source_values(d, username) ==
    [k \in {r.key : r \in {r \in d.Source : r.owner = username}} |->
        (CHOOSE r \in d.Source : r.owner = username /\ r.key = k).values_json]

\* update_source_values, for one source: UPDATE, and INSERT when no row
\* was updated
UpdateSourceValues(d, username, key, fields) ==
    IF HasSource(d, username, key)
    THEN Outcome(TRUE, [d EXCEPT !.Source =
            {IF SourceKey(r) = <<username, key>>
             THEN [r EXCEPT !.values_json = fields, !.due = 0]
             ELSE r : r \in @}])
    ELSE IF ~HasUser(d, username) THEN Outcome(FALSE, d)
    ELSE Outcome(TRUE, [d EXCEPT !.Source =
            @ \cup {SourceRow(username, key, fields, None, 0)}])

\* (for contrast: a connection without PRAGMA foreign_keys = ON)
NotEnforced(d, row) == TRUE
\* the FOREIGN KEY clauses of Merge, checked when `row` is inserted
MergeKeysHold(d, row) ==
    /\ HasUser(d, row.owner)
    /\ HasSource(d, row.owner, row.source_a)
    /\ HasSource(d, row.owner, row.source_b)
    /\ HasPublication(d, row.owner, row.source_a, row.pub_a)
    /\ HasPublication(d, row.owner, row.source_b, row.pub_b)

\* PRIMARY KEY of Merge
MergeKey(r) == <<r.owner, r.source_a, r.source_b, r.pub_a, r.pub_b>>

\* (for contrast: a save that inserts without the DELETE)
save_merges_keeping(d, username, merges) ==
    LET rows == [i \in 1..Len(merges) |->
                    [owner |-> username, source_a |-> merges[i].source_a,
                     source_b |-> merges[i].source_b, pub_a |-> merges[i].pub_a,
                     pub_b |-> merges[i].pub_b, similarity |-> merges[i].similarity]]
    IN  IF \A i \in 1..Len(rows) :
              /\ rows[i].owner \in d.User
              /\ \A j \in 1..Len(rows) : rows[i] = rows[j] => i = j
              /\ \A r \in d.Merge :
                    <<r.owner, r.source_a, r.source_b, r.pub_a, r.pub_b>> #
                    <<rows[i].owner, rows[i].source_a, rows[i].source_b,
                      rows[i].pub_a, rows[i].pub_b>>
        THEN [ok |-> TRUE, d |-> [d EXCEPT !.Merge = @ \cup {rows[i] : i \in 1..Len(rows)}]]
        ELSE [ok |-> FALSE, d |-> d]
\* save_merges(username, merges) between BEGIN and COMMIT: the DELETE, then
\* one plain INSERT per element, which fails on a row that breaks a foreign
\* key or repeats a primary key
save_merges(d, username, merges) ==
    LET deleted == [d EXCEPT !.Merge = {r \in @ : r.owner # username}]
        rows == [i \in 1..Len(merges) |->
                    MergeRow(username, merges[i].source_a, merges[i].source_b,
                             merges[i].pub_a, merges[i].pub_b, merges[i].similarity)]
    IN  IF /\ \A i \in 1..Len(rows) : MergeKeysHold(deleted, rows[i])
           /\ \A i, j \in 1..Len(rows) : MergeKey(rows[i]) = MergeKey(rows[j]) => i = j
        THEN Outcome(TRUE, [deleted EXCEPT !.Merge = @ \cup {rows[i] : i \in 1..Len(rows)}])
        ELSE Outcome(FALSE, d)

\* (for contrast: tables whose owner does not cascade and is not enforced)
delete_user_only(d, username) == [d EXCEPT !.User = @ \ {username}]
\* delete_user(username): DELETE FROM User, and ON DELETE CASCADE of the
\* foreign key owner -> User(username) that every other table declares
delete_user(d, username) ==
    [User |-> d.User \ {username},
     Source |-> {r \in d.Source : r.owner # username},
     Author |-> {r \in d.Author : r.owner # username},
     Publication |-> {r \in d.Publication : r.owner # username},
     PublicationAuthors |-> {r \in d.PublicationAuthors : r.owner # username},
     Cites |-> {r \in d.Cites : r.owner # username},
     Merge |-> {r \in d.Merge : r.owner # username}]

\* (for contrast: a connection that commits every statement as it runs)
DurableAutocommit(d, v, in_txn) == v
\* What is durable after a statement: outside a transaction the statement
\* itself (isolation_level=None), inside one nothing until COMMIT
Durable(d, v, in_txn) == IF in_txn THEN d ELSE v

----------------------------------------------------------------------------
(* State *)

VARIABLES
    now,            \* time.time(), in seconds
    epoch,          \* time.time() when the modelled run began
    db,             \* the database file: what is durable
    view,           \* what the connection reads: durable and uncommitted
    txn,            \* "none", or who executed the open BEGIN:
                    \* "crawl", "http", or "orphan" once that task has raised
    pc,             \* Scheduler._crawl: where the task is
    source,         \* _crawl's local `source`: None or Some(row)
    delay,          \* _crawl's local `delay`
    deadline,       \* when the timeout of the pending wait_for expires
    invoked,        \* the call of the adapter in flight: state, stage, error
    step,           \* _crawl's local `step`
    crawl_notify,   \* Scheduler._crawl_notify is set
    hpc,            \* update_source_fields: where the request is
    hreq,           \* its username and the sources it changes
    mpc,            \* Merger._periodic_merge: where the task is
    force_check,    \* Merger._force_check is set
    merge_deadline, \* when the timeout of the merger's wait_for expires
    nsteps, nrequests, nrestarts, nmerges,
    persisted,      \* history: per source, the task_json of its last committed step
    persisted_due,  \* history: per source, the due of its last committed step
    pending,        \* history: sources an update has written since the last selection
    seen,           \* history: the due the last selection found for them
    inflight,       \* history: the steps begun and not yet over, as <<source, number>>
    last_done,      \* history: the source of the step that was last over
    merging,        \* history: the last call of save_merges, and the Merge rows
                    \* that were durable when it began
    forced,         \* history: the last call of force_merge: what it answered and
                    \* what the merger was doing
    owed,           \* history: a request answered true, and no merge begun since
    fail_retry_delay,       \* Auth._fail_retry_delay, in seconds
    rate_limit_ip_to_due,   \* Auth._rate_limit_ip_to_due
    rate_limit_last_cleaned,\* Auth._rate_limit_last_cleaned
    loop_time,              \* asyncio.get_event_loop().time()
    limited,        \* history: the last call of apply_rate_limit: the remote and
                    \* whether it returned
    accepted_at,    \* history: per remote, when apply_rate_limit last returned
    nlimited,       \* how many times apply_rate_limit was called
    cycle,          \* one source crawled step after step against a remote
                    \* service: the adapter, the service, the database, and as
                    \* history what the service listed and returned
    stepped,        \* whether the steps of the cycle so far are odd in number
    applied         \* a function of the program applied on its own: which one,
                    \* to which of its inputs, and the values computed so far

storeVars == <<db, view, txn>>
schedVars == <<pc, source, delay, deadline, invoked, step, crawl_notify>>
httpVars == <<hpc, hreq>>
mergeVars == <<mpc, force_check, merge_deadline>>
countVars == <<nsteps, nrequests, nrestarts, nmerges>>
reqVars == <<persisted, persisted_due, pending, seen>>
stepVars == <<inflight, last_done>>
forceVars == <<forced, owed>>
mergeHist == <<merging, forceVars>>
histVars == <<reqVars, stepVars, mergeHist>>
programVarsButAuth == <<now, epoch, storeVars, schedVars, httpVars, mergeVars, countVars,
                        histVars>>
authVars == <<fail_retry_delay, rate_limit_ip_to_due, rate_limit_last_cleaned, loop_time,
              limited, accepted_at, nlimited>>
cycleVars == <<cycle, stepped>>
fixedVars == <<epoch, applied, authVars, cycleVars>>
vars == <<now, fixedVars, storeVars, schedVars, httpVars, mergeVars, countVars, histVars>>

NotForced == [ok |-> FALSE, at |-> ""]
NotMerging == [username |-> "", merges |-> <<>>, before |-> {}]
NotLimited == [remote |-> "", ok |-> TRUE]
NoCycle == [adapter |-> "", remote |-> 0]
NotApplied == [fn |-> "", n |-> 0, e |-> None, out |-> <<>>]
NoCall == [state |-> None, stage |-> initial_stage, error |-> 0, failed |-> FALSE]
NoRequest == [username |-> "", key |-> "", fields |-> EmptyDict,
              changed |-> FALSE, rowcount |-> 0]

\* the database of a fresh installation with both users registered
FreshStore == [EmptyTables EXCEPT !.User = Owners]

\* (for contrast: a scheduler that passes no state)
LoadStateFresh(task_json) == None
\* if source.task_json: state = json.loads(source.task_json) else None
LoadState(task_json) ==
    IF IsNone(task_json) THEN None
    ELSE IF Get(task_json) = JsonNull THEN None
    ELSE task_json

TheSource(d, owner, key) ==
    CHOOSE r \in d.Source : r.owner = owner /\ r.key = key

\* save_crawler_step(source, step) run from BEGIN to COMMIT without error
SavedStep(d, src, st, due) ==
    LET a == InsertAuthors(d, src, st).d
        b == InsertPublications(a, src, st).d
        c == InsertPublicationAuthors(b, src, st).d
        e == InsertCites(c, src, st).d
    IN  UpdateSourceTask(e, src, Some(stage_as_json(st)), due)

\* the database after n more iterations of _crawl on the one source of
\* `owner`, each begun when the row came due and each with the same luck
RECURSIVE Crawled(_, _, _, _)
Crawled(d, owner, n, fails) ==
    IF n = 0 THEN d
    ELSE LET src == TheSource(d, owner, "dimensions")
             state == LoadState(src.task_json)
             st == CrawlerStep(src.values_json, state, fails)
         IN  Crawled(SavedStep(d, src, st, src.due + st.delay), owner, n - 1, fails)

Configured(owner, url) ==
    UpdateSourceValues(FreshStore, owner, "dimensions", [k \in {"url"} |-> url]).d

\* The databases a run starts from: a fresh one; one whose source has
\* fetched its author and both pages of publications; one whose source has
\* failed five times in a row
InitialStores ==
    {FreshStore,
     Crawled(Configured("u1", URL_A), "u1", 3, FALSE),
     Crawled(Configured("u1", URL_A), "u1", 5, TRUE)}

LatestDue(d) ==
    IF d.Source = {} THEN 0
    ELSE (CHOOSE r \in d.Source : \A o \in d.Source : o.due <= r.due).due

\* Auth.__init__ with fail_retry_delay = retry, the loop's clock at t
AuthAt(retry, t) ==
    /\ fail_retry_delay = retry
    /\ rate_limit_ip_to_due = EmptyDict
    /\ rate_limit_last_cleaned = 0
    /\ loop_time = t
    /\ limited = NotLimited
    /\ accepted_at = EmptyDict
    /\ nlimited = 0

\* the state after construction, on the database d at time t, but for Auth
ProgramAt(d, t) ==
    /\ db = d
    /\ now = t
    /\ epoch = now
    /\ view = db
    /\ txn = "none"
    /\ pc = "select"
    /\ source = None
    /\ delay = 0
    /\ deadline = 0
    /\ invoked = NoCall
    /\ step = DefaultStep
    /\ crawl_notify = FALSE
    /\ hpc = "idle"
    /\ hreq = NoRequest
    /\ mpc = "wait"
    /\ force_check = FALSE
    /\ merge_deadline = now + AUTO_DELAY
    /\ nsteps = 0
    /\ nrequests = 0
    /\ nrestarts = 0
    /\ nmerges = 0
    /\ persisted = [k \in {SourceKey(r) : r \in {r \in db.Source : ~IsNone(r.task_json)}} |->
                        Get(TheSource(db, k[1], k[2]).task_json)]
    /\ persisted_due =
            [k \in {SourceKey(r) : r \in {r \in db.Source : ~IsNone(r.task_json)}} |->
                TheSource(db, k[1], k[2]).due]
    /\ pending = {}
    /\ seen = {}
    /\ inflight = {}
    /\ last_done = None
    /\ merging = NotMerging
    /\ forced = NotForced
    /\ owed = FALSE

\* the state after construction, on the database d at time t
InitAt(d, t) == ProgramAt(d, t) /\ AuthAt(0, 0) /\ cycle = NoCycle /\ stepped = FALSE

InitOn(d) == InitAt(d, LatestDue(d))

Init ==
    /\ \E d \in InitialStores : InitOn(d)
    /\ applied = NotApplied

----------------------------------------------------------------------------
(* Scheduler._crawl *)

\* step = await CRAWLERS[source.key].step(...): the call is in flight from
\* here on
Began(running, key, n) == running \cup {<<key, n>>}

\* (for contrast: a loop that goes on before save_crawler_step is over)
EndedNever(running) == running
\* await self._db.save_crawler_step(step) has returned or raised, or the
\* task was cancelled: _crawl holds no step any more
Ended(running) == {}

\* source = await self._db.next_source_task()
SelectRead ==
    /\ pc = "select"
    /\ \/ /\ view.Source = {}
          /\ source' = None
       \/ \E r \in next_source_task(view) : source' = Some(r)
    /\ pc' = "selected"
    /\ seen' = {<<SourceKey(r), r.due>> : r \in {r \in view.Source : SourceKey(r) \in pending}}
    /\ pending' = {}
    /\ UNCHANGED <<now, fixedVars, storeVars, delay, deadline, invoked, step, crawl_notify,
                   httpVars, mergeVars, countVars, persisted, persisted_due, stepVars, mergeHist>>

\* the branch taken on `source` and `delay`, and _wait_notify up to its
\* await: the event is cleared and the timeout armed
BeginWait ==
    /\ pc = "selected"
    /\ crawl_notify' = FALSE
    /\ IF IsNone(source)
       THEN /\ delay' = delay
            /\ deadline' = now + MAX_SLEEP
            /\ pc' = "wait_idle"
       ELSE /\ delay' = Get(source).due - now
            /\ IF delay' > MAX_SLEEP
               THEN deadline' = now + MAX_SLEEP /\ pc' = "wait_idle"
               ELSE deadline' = now + Max(delay', 0) /\ pc' = "wait_due"
    /\ UNCHANGED <<now, fixedVars, storeVars, source, invoked, step, httpVars, mergeVars,
                   countVars, histVars>>

\* time passes until the pending timeout
Tick ==
    /\ pc \in {"wait_idle", "wait_due"}
    /\ ~crawl_notify
    /\ now < deadline
    /\ deadline - epoch <= MaxTime
    /\ now' = deadline
    /\ UNCHANGED <<fixedVars, storeVars, schedVars, httpVars, mergeVars, countVars, histVars>>

\* (for contrast: a timeout that expires at once)
TimerAlways(t, d) == TRUE
\* the timeout of asyncio.wait_for(event.wait(), delay) has expired
TimerExpired(t, d) == t >= d

\* what _wait_notify can return: True when the event is set before the
\* timeout, False on TimeoutError.  A timeout that is not positive raises
\* without looking at the event; an event set once the timeout has expired
\* races with it.
WaitResults(timeout, set, expired) ==
    IF timeout <= 0 THEN {FALSE}
    ELSE IF set /\ ~expired THEN {TRUE}
    ELSE IF set THEN {TRUE, FALSE}
    ELSE {FALSE}

\* (for contrast: a loop that ignores what _wait_notify returns)
AfterWaitIgnoring(at, notified) ==
    IF at = "wait_due" THEN "stepping" ELSE "select"
\* where _crawl goes when _wait_notify returns `notified`
AfterWait(at, notified) ==
    IF notified THEN "select"
    ELSE IF at = "wait_due" THEN "stepping"
    ELSE "select"

\* _wait_notify returns; on False after the wait for `delay`, values and
\* state are decoded and the adapter is called
WaitEnds ==
    /\ pc \in {"wait_idle", "wait_due"}
    /\ crawl_notify \/ TimerExpired(now, deadline)
    /\ \E notified \in WaitResults(IF pc = "wait_due" THEN delay ELSE MAX_SLEEP,
                                   crawl_notify, TimerExpired(now, deadline)) :
        pc' = AfterWait(pc, notified)
    /\ IF pc' = "stepping"
       THEN /\ nsteps < MaxSteps
            /\ nsteps' = nsteps + 1
            /\ invoked' = [NoCall EXCEPT !.state = LoadState(Get(source).task_json)]
            /\ inflight' = Began(inflight, SourceKey(Get(source)), nsteps')
       ELSE UNCHANGED <<nsteps, invoked, inflight>>
    /\ UNCHANGED <<now, fixedVars, storeVars, source, delay, deadline, step, crawl_notify,
                   httpVars, mergeVars, nrequests, nrestarts, nmerges, reqVars,
                   last_done, mergeHist>>

\* step = await CRAWLERS[source.key].step(values, state, session)
StepDone(fails) ==
    /\ pc = "stepping"
    /\ now' = now + RequestTime
    /\ LET d == DecodeState(invoked.state)
       IN  /\ step' = CrawlerStep(Get(source).values_json, invoked.state, fails)
           /\ invoked' = [invoked EXCEPT !.stage = d.stage, !.error = d.error,
                                         !.failed = IsNone(DimensionsStep(
                                    Get(source).values_json, d.stage, fails))]
    /\ pc' = "save_begin"
    /\ UNCHANGED <<fixedVars, storeVars, source, delay, deadline, crawl_notify, httpVars,
                   mergeVars, countVars, histVars>>

----------------------------------------------------------------------------
(* Database.save_crawler_step under _transaction *)

SavePhases == {"save_authors", "save_publications", "save_publication_authors",
               "save_cites", "save_source", "save_commit"}

\* the exception leaves _crawl through `except Exception`: the task ends
CrawlRaises ==
    /\ pc' = "exited"
    /\ inflight' = Ended(inflight)
    /\ last_done' = Some(SourceKey(Get(source)))
    /\ source' = None
    /\ invoked' = NoCall
    /\ step' = DefaultStep
    /\ UNCHANGED <<delay, deadline, crawl_notify>>

\* `except sqlite3.Error`: ROLLBACK, raise
RollbackAndRaise ==
    /\ view' = db
    /\ db' = db
    /\ txn' = "none"
    /\ CrawlRaises

\* async with self._db.execute("BEGIN"): fails inside an open transaction,
\* before the try
SaveBegin ==
    /\ pc = "save_begin"
    /\ IF txn = "none"
       THEN /\ txn' = "crawl"
            /\ pc' = "save_authors"
            /\ UNCHANGED <<db, view, source, delay, deadline, invoked, step,
                           crawl_notify, stepVars>>
       ELSE /\ CrawlRaises
            /\ UNCHANGED storeVars
    /\ UNCHANGED <<now, fixedVars, httpVars, mergeVars, countVars, reqVars, mergeHist>>

\* one statement group of save_crawler_step
SaveStatement(at, next, out) ==
    /\ pc = at
    /\ IF out.ok
       THEN /\ view' = out.d
            /\ db' = Durable(db, out.d, txn # "none")
            /\ pc' = next
            /\ UNCHANGED <<txn, source, delay, deadline, invoked, step, crawl_notify,
                           stepVars>>
       ELSE RollbackAndRaise
    /\ UNCHANGED <<now, fixedVars, httpVars, mergeVars, countVars, reqVars, mergeHist>>

SaveAuthors ==
    SaveStatement("save_authors", "save_publications",
                  InsertAuthors(view, Get(source), step))

SavePublications ==
    SaveStatement("save_publications", "save_publication_authors",
                  InsertPublications(view, Get(source), step))

SavePublicationAuthors ==
    SaveStatement("save_publication_authors", "save_cites",
                  InsertPublicationAuthors(view, Get(source), step))

SaveCites ==
    SaveStatement("save_cites", "save_source",
                  InsertCites(view, Get(source), step))

\* the UPDATE of Source with step.stage_as_json() and step.due()
SaveSource ==
    \E due \in DueValues(step, now) :
        SaveStatement("save_source", "save_commit",
            Outcome(TRUE, UpdateSourceTask(view, Get(source),
                                           Some(stage_as_json(step)), due)))

\* COMMIT; back at the top of the loop
SaveCommit ==
    /\ pc = "save_commit"
    /\ db' = view
    /\ txn' = "none"
    /\ pc' = "select"
    /\ persisted' = IF HasSource(view, Get(source).owner, Get(source).key)
                    THEN DictSet(persisted, SourceKey(Get(source)), stage_as_json(step))
                    ELSE persisted
    /\ persisted_due' =
            IF HasSource(view, Get(source).owner, Get(source).key)
            THEN DictSet(persisted_due, SourceKey(Get(source)),
                         TheSource(view, Get(source).owner, Get(source).key).due)
            ELSE persisted_due
    /\ inflight' = Ended(inflight)
    /\ last_done' = Some(SourceKey(Get(source)))
    /\ source' = None
    /\ invoked' = NoCall
    /\ step' = DefaultStep
    /\ UNCHANGED <<now, fixedVars, view, delay, deadline, crawl_notify, httpVars, mergeVars,
                   countVars, pending, seen, mergeHist>>

\* an exception inside the transaction that no constraint explains: an
\* sqlite3.Error (disk, lock) is rolled back; any other exception, and a
\* failing COMMIT, leave the transaction open
SaveFault(kind) ==
    /\ pc \in SavePhases
    /\ IF kind = "sqlite" /\ pc # "save_commit"
       THEN RollbackAndRaise
       ELSE /\ txn' = "orphan"
            /\ CrawlRaises
            /\ UNCHANGED <<db, view>>
    /\ UNCHANGED <<now, fixedVars, httpVars, mergeVars, countVars, reqVars, mergeHist>>

----------------------------------------------------------------------------
(* Scheduler.update_source_fields(username, sources), one HTTP request *)

Urls == {URL_EMPTY, URL_A, URL_B, URL_BAD}

\* values = await get_source_values(username); the loop over the fields,
\* where a value equal to the stored one, or one that fails validation,
\* changes nothing; then update_source_values up to its COMMIT: BEGIN,
\* which raises inside an open transaction and ends the request, the
\* UPDATE, and the INSERT when rowcount == 0
UpdBegin(username, url) ==
    /\ hpc = "idle"
    /\ nrequests < MaxRequests
    /\ nrequests' = nrequests + 1
    /\ LET values == get_source_values(view, username)
           old == IF "dimensions" \in DOMAIN values
                  THEN values["dimensions"] ELSE EmptyDict
           same == "url" \in DOMAIN old /\ old["url"] = url
           valid == url = URL_EMPTY \/ validate_field("url", url)
           changed == ~same /\ valid
           fields == IF changed THEN DictSet(old, "url", url) ELSE old
           out == IF changed
                  THEN UpdateSourceValues(view, username, "dimensions", fields)
                  ELSE Outcome(TRUE, view)
       IN  IF txn = "none" /\ out.ok
           THEN /\ txn' = "http"
                /\ view' = out.d
                /\ db' = Durable(db, out.d, TRUE)
                /\ hreq' = [username |-> username, key |-> "dimensions",
                            fields |-> fields, changed |-> changed,
                            rowcount |-> IF HasSource(view, username, "dimensions")
                                         THEN 1 ELSE 0]
                /\ hpc' = "commit"
                /\ pending' = IF changed
                              THEN pending \cup {<<username, "dimensions">>}
                              ELSE pending
           ELSE /\ view' = IF txn = "none" THEN db ELSE view
                /\ UNCHANGED <<db, txn, hreq, hpc, pending>>
    /\ UNCHANGED <<now, fixedVars, schedVars, mergeVars, nsteps, nrestarts, nmerges,
                   persisted, persisted_due, seen, stepVars, mergeHist>>

\* COMMIT; self._crawl_notify.set(); the request returns
UpdCommit ==
    /\ hpc = "commit"
    /\ db' = view
    /\ txn' = "none"
    /\ crawl_notify' = TRUE
    /\ hpc' = "idle"
    /\ hreq' = NoRequest
    /\ UNCHANGED <<now, fixedVars, view, pc, source, delay, deadline, invoked, step,
                   mergeVars, countVars, histVars>>

----------------------------------------------------------------------------
(* Merger._periodic_merge and Merger.force_merge *)

\* wait_for(self._force_check.wait(), AUTO_DELAY) returns, or times out
\* once AUTO_DELAY has passed; the event is cleared
MergeWake ==
    /\ mpc = "wait"
    /\ force_check \/ now >= merge_deadline
    /\ nmerges < MaxMerges
    /\ nmerges' = nmerges + 1
    /\ mpc' = "merge"
    /\ force_check' = FALSE
    /\ owed' = FALSE
    /\ UNCHANGED <<now, fixedVars, storeVars, schedVars, httpVars, merge_deadline,
                   nsteps, nrequests, nrestarts, reqVars, stepVars, merging, forced>>

\* time passes until the timeout of the merger's wait
MergeTick ==
    /\ mpc = "wait"
    /\ ~force_check
    /\ now < merge_deadline
    /\ nmerges < MaxMerges
    /\ now' = merge_deadline
    /\ UNCHANGED <<fixedVars, storeVars, schedVars, httpVars, mergeVars, countVars,
                   histVars>>

\* await self._merge(): an exception leaves the loop through `except
\* Exception`; otherwise the loop goes round, clears the event and waits
MergeDone(raises) ==
    /\ mpc = "merge"
    /\ mpc' = IF raises THEN "exited" ELSE "wait"
    /\ force_check' = IF raises THEN force_check ELSE FALSE
    /\ merge_deadline' = now + AUTO_DELAY
    /\ UNCHANGED <<now, fixedVars, storeVars, schedVars, httpVars, countVars, histVars>>

\* force_merge(), called for one HTTP request: False if the event is set,
\* else the event is set and True
force_merge ==
    /\ nrequests < MaxRequests
    /\ nrequests' = nrequests + 1
    /\ forced' = [ok |-> ~force_check, at |-> mpc]
    /\ force_check' = TRUE
    /\ owed' = (owed \/ ~force_check)
    /\ UNCHANGED <<now, fixedVars, storeVars, schedVars, httpVars, mpc, merge_deadline,
                   nsteps, nrestarts, nmerges, reqVars, stepVars, merging>>

----------------------------------------------------------------------------
(* The process stops and is started again *)

\* Closing the connection discards what was not committed; __aenter__ of
\* Scheduler and Merger create their tasks anew
Restart ==
    /\ nrestarts < MaxRestarts
    /\ nrestarts' = nrestarts + 1
    /\ view' = db
    /\ txn' = "none"
    /\ pc' = "select"
    /\ source' = None
    /\ delay' = 0
    /\ deadline' = 0
    /\ invoked' = NoCall
    /\ step' = DefaultStep
    /\ crawl_notify' = FALSE
    /\ hpc' = "idle"
    /\ hreq' = NoRequest
    /\ mpc' = "wait"
    /\ force_check' = FALSE
    /\ merge_deadline' = now + AUTO_DELAY
    /\ pending' = IF hpc = "commit"
                  THEN pending \ {<<hreq.username, hreq.key>>}
                  ELSE pending
    /\ inflight' = Ended(inflight)
    /\ owed' = FALSE
    /\ UNCHANGED <<now, fixedVars, db, nsteps, nrequests, nmerges, persisted, persisted_due, seen,
                   last_done, merging, forced>>

----------------------------------------------------------------------------

Next ==
    \/ SelectRead
    \/ BeginWait
    \/ Tick
    \/ WaitEnds
    \/ \E fails \in BOOLEAN : StepDone(fails)
    \/ SaveBegin
    \/ SaveAuthors
    \/ SavePublications
    \/ SavePublicationAuthors
    \/ SaveCites
    \/ SaveSource
    \/ SaveCommit
    \/ \E kind \in {"sqlite", "other"} : SaveFault(kind)
    \/ \E username \in Owners, url \in Urls : UpdBegin(username, url)
    \/ UpdCommit
    \/ Restart

Spec == Init /\ [][Next]_vars

\* The merger on its own: it shares no state with the scheduler and the
\* source settings, and its timeout is a day
NextMerger ==
    \/ MergeWake
    \/ MergeTick
    \/ \E raises \in BOOLEAN : MergeDone(raises)
    \/ force_merge
    \/ Restart

MergerSpec == Init /\ [][NextMerger]_vars

----------------------------------------------------------------------------
(* The store under every writer: the scheduler, the source settings, the   *)
(* merger's save_merges and the deletion of users                          *)

\* what Database.save_merges is called with: source_a, source_b, pub_a,
\* pub_b, similarity
MergeOf(source_a, pub_a, source_b, pub_b, similarity) ==
    [source_a |-> source_a, source_b |-> source_b, pub_a |-> pub_a,
     pub_b |-> pub_b, similarity |-> similarity]

\* the source `key` of `owner` after a step that found one publication and
\* ended the cycle: due in a week
SourceDone(d, owner, key, id, t) ==
    LET e == UpdateSourceValues(d, owner, key, [k \in {"url"} |-> URL_A]).d
        st == [DefaultStep EXCEPT
                !.self_publications = <<Publication(Some(id), "T1", <<>>)>>]
    IN  SavedStep(e, TheSource(e, owner, key), st, t + FULL_CYCLE_DELAY)

PathP1 == PubPath(Publication(Some("p1"), "", <<>>))
PathP2 == PubPath(Publication(Some("p2"), "", <<>>))
PathE1 == PubPath(Publication(Some("e1"), "", <<>>))
PathR1 == PubPath(Publication(Some("r1"), "", <<>>))

\* the lists a merge cycle may hand to save_merges: computed from the
\* publications it read, which may be gone by the time they are saved
MergeLists ==
    {<<>>,
     <<MergeOf("dimensions", PathP1, "ieeexplore", PathE1, 10)>>,
     <<MergeOf("ieeexplore", PathE1, "researchgate", PathR1, 10),
       MergeOf("ieeexplore", PathE1, "researchgate", PathR1, 10)>>}

\* how many times save_merges is called
MaxSaves == 1

\* save_merges up to its COMMIT.  BEGIN raises inside an open transaction;
\* an sqlite3.Error of a statement is rolled back; either way the exception
\* ends the merger's task
SaveMergesBegin(username, merges) ==
    /\ mpc = "wait"
    /\ nmerges < MaxSaves
    /\ nmerges' = nmerges + 1
    /\ LET out == save_merges(view, username, merges)
       IN  IF txn = "none" /\ out.ok
           THEN /\ txn' = "merge"
                /\ view' = out.d
                /\ db' = Durable(db, out.d, TRUE)
                /\ mpc' = "save_merges"
           ELSE /\ view' = IF txn = "none" THEN db ELSE view
                /\ mpc' = "exited"
                /\ UNCHANGED <<db, txn>>
    /\ merging' = [username |-> username, merges |-> merges, before |-> db.Merge]
    /\ UNCHANGED <<now, fixedVars, schedVars, httpVars, force_check, merge_deadline,
                   nsteps, nrequests, nrestarts, reqVars, stepVars, forceVars>>

\* COMMIT
SaveMergesCommit ==
    /\ mpc = "save_merges"
    /\ db' = view
    /\ txn' = "none"
    /\ mpc' = "wait"
    /\ UNCHANGED <<now, fixedVars, view, schedVars, httpVars, force_check,
                   merge_deadline, countVars, histVars>>

\* an exception that is no sqlite3.Error, or a failing COMMIT: the
\* transaction stays open
SaveMergesFault ==
    /\ mpc = "save_merges"
    /\ txn' = "orphan"
    /\ mpc' = "exited"
    /\ UNCHANGED <<now, fixedVars, db, view, schedVars, httpVars, force_check,
                   merge_deadline, countVars, histVars>>

\* Database.delete_user(username): its one statement under _transaction.
\* BEGIN raises inside an open transaction and the request fails.
DeleteUser(username) ==
    /\ hpc = "idle"
    /\ nrequests < MaxRequests
    /\ nrequests' = nrequests + 1
    /\ IF txn = "none"
       THEN /\ db' = delete_user(db, username)
            /\ view' = db'
       ELSE UNCHANGED <<db, view>>
    /\ UNCHANGED <<now, fixedVars, txn, schedVars, httpVars, mergeVars, nsteps,
                   nrestarts, nmerges, histVars>>

\* The databases: fresh; and one where u1 has crawled Dimensions up to the
\* first citations, u1 and u2 have more sources whose cycle is over, and
\* merges of an earlier cycle are saved
MergedStore ==
    LET a == Crawled(Configured("u1", URL_A), "u1", 4, FALSE)
        b == SourceDone(a, "u1", "ieeexplore", "e1", 0)
        c == SourceDone(SourceDone(b, "u2", "ieeexplore", "e1", 0),
                        "u2", "researchgate", "r1", 0)
        e == save_merges(c, "u1",
                 <<MergeOf("dimensions", PathP2, "ieeexplore", PathE1, 10)>>).d
    IN  save_merges(e, "u2",
            <<MergeOf("ieeexplore", PathE1, "researchgate", PathR1, 10)>>).d

StoreInitialStores == {FreshStore, MergedStore}

EarliestDue(d) ==
    IF d.Source = {} THEN 0
    ELSE (CHOOSE r \in d.Source : \A o \in d.Source : r.due <= o.due).due

InitStore ==
    /\ \E d \in StoreInitialStores : InitAt(d, EarliestDue(d))
    /\ applied = NotApplied

NextStore ==
    \/ Next
    \/ \E username \in Owners, merges \in MergeLists : SaveMergesBegin(username, merges)
    \/ SaveMergesCommit
    \/ SaveMergesFault
    \/ \E username \in Owners : DeleteUser(username)

StoreSpec == InitStore /\ [][NextStore]_vars

----------------------------------------------------------------------------
(* crawler/crawlers/msacademics.py: the Microsoft Academic adapter *)

URL_ACADEMICS == Url("academic.microsoft.com", "/profile", Some("mA"))

\* url.path.split("/"): parts[1] is the path here and parts[2] the
\* researcher; None when an assert fails or parts[2] is missing
academics_author_id_from_url(url) ==
    IF url.netloc # "academic.microsoft.com" THEN None
    ELSE IF url.path # "/profile" THEN None
    ELSE url.researcher

FETCH_SIZE == 10

\* how many results the service puts in one answer at most
RemoteTake == 1

\* The remote service: the profile mA has two papers; a3 cites a1 and a2,
\* a4 cites a2
Paper(id, dn, a) == [id |-> id, dn |-> dn, a |-> a]
PaperA1 == Paper("a1", "T1", <<"Ann A">>)
PaperA2 == Paper("a2", "T2", <<"Ann A", "Bob B">>)
PaperA3 == Paper("a3", "T3", <<"Cy C">>)
PaperA4 == Paper("a4", "T4", <<"Di D">>)
AcademicsPapers == <<PaperA1, PaperA2>>
AcademicsCiting ==
    <<[paper |-> PaperA3, originalPaperLinks |-> <<"a1", "a2">>],
      [paper |-> PaperA4, originalPaperLinks |-> <<"a2">>]>>

\* skip = offset, take = _FETCH_SIZE
Taken(results, offset) ==
    SubSeq(results, offset + 1, Min(Len(results), offset + Min(FETCH_SIZE, RemoteTake)))

fetch_profile(iden) ==
    [pc |-> IF iden = "mA" THEN Len(AcademicsPapers) ELSE 0,
     publicationsExpression |-> "pe:" \o iden,
     citedByExpression |-> "ce:" \o iden,
     dn |-> "ann a"]

academics_fetch_publications(expr, query, offset) ==
    [pr |-> IF expr = "pe:mA" THEN Taken(AcademicsPapers, offset) ELSE <<>>]

\* data["sr"]["t"] is t here
academics_fetch_citations(expr, query, offset) ==
    [rpi |-> IF expr = "ce:mA" THEN Taken(AcademicsCiting, offset) ELSE <<>>,
     t |-> IF expr = "ce:mA" THEN Len(AcademicsCiting) ELSE 0]

adapt_paper(paper) ==
    Publication(Some(paper.id), paper.dn,
        [j \in 1..Len(paper.a) |-> Embedded(Author(None, paper.a[j]))])

academics_adapt_publications(data) ==
    [i \in 1..Len(data.pr) |-> adapt_paper(data.pr[i])]

\* the pairs (citation, ids of the papers it cites)
academics_adapt_citations(data) ==
    [i \in 1..Len(data.rpi) |->
        [cit |-> adapt_paper(data.rpi[i].paper),
         cites_ids |-> data.rpi[i].originalPaperLinks]]

\* Step(delay, stage = the instance built, ...): None when building the
\* stage raised
StepTo(secs, built, authors, self_publications, citations) ==
    IF IsNone(built) THEN None
    ELSE Some(Step(secs, built, authors, self_publications, citations, None))

\* CrawlAcademics._step(values, stage, session).  The dict `citations`
\* that FetchCitations fills is in neither Step it returns.
AcademicsStep(values, stage, fails) ==
    IF "url" \notin DOMAIN values THEN None
    ELSE IF IsNone(academics_author_id_from_url(values["url"])) THEN None
    ELSE IF fails THEN None
    ELSE
    LET user_author_id == Get(academics_author_id_from_url(values["url"]))
    IN  CASE stage.variant = "academics.FetchQueries" ->
                LET data == fetch_profile(user_author_id)
                IN  StepTo(1, Construct("academics.FetchPublications",
                               [pub_count |-> data.pc,
                                pub_expr |-> data.publicationsExpression,
                                cit_expr |-> data.citedByExpression,
                                query |-> data.dn]),
                           <<>>, <<>>, <<>>)
          [] stage.variant = "academics.FetchPublications" ->
                LET data == academics_fetch_publications(
                                stage.data["pub_expr"], stage.data["query"],
                                stage.data["offset"])
                    self_publications == academics_adapt_publications(data)
                    offset == stage.data["offset"] + Len(self_publications)
                IN  IF offset >= stage.data["pub_count"] \/ self_publications = <<>>
                    THEN StepTo(30 * 60, Construct("academics.FetchCitations",
                                    [cit_expr |-> stage.data["cit_expr"],
                                     query |-> stage.data["query"]]),
                                <<>>, self_publications, <<>>)
                    ELSE StepTo(2 * 60, Construct("academics.FetchPublications",
                                    [pub_count |-> stage.data["pub_count"],
                                     pub_expr |-> stage.data["pub_expr"],
                                     cit_expr |-> stage.data["cit_expr"],
                                     query |-> stage.data["query"],
                                     offset |-> offset]),
                                <<>>, self_publications, <<>>)
          [] stage.variant = "academics.FetchCitations" ->
                LET data == academics_fetch_citations(
                                stage.data["cit_expr"], stage.data["query"],
                                stage.data["offset"])
                    cit_count == data.t
                    adapted == academics_adapt_citations(data)
                    citations == {i \in 1..Len(adapted) : adapted[i].cites_ids # <<>>}
                    offset == stage.data["offset"] + Len(adapted)
                IN  IF offset >= cit_count \/ citations = {}
                    THEN StepTo(30 * 60, Construct("academics.FetchQueries", EmptyDict),
                                <<>>, <<>>, <<>>)
                    ELSE StepTo(2 * 60, Construct("academics.FetchCitations",
                                    [cit_expr |-> stage.data["cit_expr"],
                                     query |-> stage.data["query"],
                                     offset |-> offset]),
                                <<>>, <<>>, <<>>)

----------------------------------------------------------------------------
(* crawler/crawlers/scholar.py: the Google Scholar adapter *)

URL_SCHOLAR == Url("scholar.google.com", "/citations", Some("sA"))

\* query["user"][0]; None when an assert fails or the query has no user
scholar_author_id_from_url(url) ==
    IF url.netloc # "scholar.google.com" THEN None
    ELSE IF url.path # "/citations" THEN None
    ELSE url.researcher

PROFILE_DELAY == 5 * 60
PUBLICATION_DELAY == 60 * 60

\* parse_author_profile of the profile page of the remote service: the
\* author, the publications of the first page and whether more remain
ScholarProfile(author_id) ==
    IF author_id = "sA"
    THEN [self_author |-> Author(Some("sA"), "Ann A"),
          self_publications |->
              <<Publication(Some("s1"), "T1", <<Embedded(Author(None, "Ann A"))>>)>>,
          pubs_remain |-> FALSE]
    ELSE [self_author |-> Author(Some(author_id), ""), self_publications |-> <<>>,
          pubs_remain |-> FALSE]

\* CrawlScholar._step(values, stage, session).  known_pub_ids is no field
\* of the stage classes: building a stage with it raises TypeError, and
\* stage.known_pub_ids reads the class attribute typing.List[str], on which
\* len() and indexing raise TypeError.
ScholarStep(values, stage, fails) ==
    IF "url" \notin DOMAIN values THEN None
    ELSE IF IsNone(scholar_author_id_from_url(values["url"])) THEN None
    ELSE
    LET user_author_id == Get(scholar_author_id_from_url(values["url"]))
    IN  CASE stage.variant = "scholar.FetchFirst" ->
                IF fails THEN None
                ELSE
                LET page == ScholarProfile(user_author_id)
                    known_pub_ids == PubIds(page.self_publications)
                IN  IF page.pubs_remain
                    THEN StepTo(PROFILE_DELAY,
                                Construct("scholar.FetchPublications",
                                          [known_pub_ids |-> known_pub_ids]),
                                <<page.self_author>>, page.self_publications, <<>>)
                    ELSE StepTo(PUBLICATION_DELAY,
                                Construct("scholar.FetchSinglePublication",
                                          [known_pub_ids |-> known_pub_ids]),
                                <<page.self_author>>, page.self_publications, <<>>)
          [] stage.variant = "scholar.FetchPublications" -> None
          [] stage.variant = "scholar.FetchSinglePublication" -> None
          [] stage.variant = "scholar.FetchCitations" -> None

----------------------------------------------------------------------------
(* One source crawled from its initial stage, step after step: the base   *)
(* class's step as above, for any adapter, and save_crawler_step          *)

Adapters == {"dimensions", "academics", "scholar"}

RemotesOf(adapter) == IF adapter = "dimensions" THEN DimensionsRemotes ELSE {1}

UrlOf(adapter) ==
    CASE adapter = "dimensions" -> URL_A
      [] adapter = "academics" -> URL_ACADEMICS
      [] adapter = "scholar" -> URL_SCHOLAR

\* initial_stage(): the class with INDEX 0, without arguments
InitialStageOf(adapter) ==
    LET i == CHOOSE i \in 1..Len(StageClasses) :
                StageClasses[i].adapter = adapter /\ StageClasses[i].index = 0
    IN  Get(Construct(StageClasses[i].variant, EmptyDict))

AdapterStep(adapter, r, values, stage, fails) ==
    CASE adapter = "dimensions" -> DimensionsStepOn(r, values, stage, fails)
      [] adapter = "academics" -> AcademicsStep(values, stage, fails)
      [] adapter = "scholar" -> ScholarStep(values, stage, fails)

\* the stage and error count that step() starts from
StateOf(adapter, state) ==
    IF IsNone(state) THEN [stage |-> InitialStageOf(adapter), error |-> 0]
    ELSE Get(DecodeStage(adapter, Get(state)))

\* Crawler.step(values, state, session) of the adapter
CrawlerStepOf(adapter, r, values, state, fails) ==
    LET d == StateOf(adapter, state)
        got == AdapterStep(adapter, r, values, d.stage, fails)
    IN  IF IsNone(got) THEN ErrorStep(d.stage, d.error)
        ELSE fix_authors(Get(got))

CycleOwner == "u1"

\* what the remote service answers to the request of the step made at
\* `stage`: the ids of the user's publications it lists, the citations
\* (citing id, cited id) it returns, and the (publication, cursor) asked for
Answer(listed, returned, asked) ==
    [listed |-> listed, returned |-> returned, asked |-> asked]
Ids(docs) == {docs[i].id : i \in 1..Len(docs)}
RemoteAnswer(adapter, r, values, stage) ==
    CASE adapter = "dimensions" /\ stage.variant = "FetchPublications" ->
            Answer(Ids(RemotePublicationsOf(r, Get(author_id_from_url(values["url"])),
                                            stage.data["cursor"]).docs), {}, {})
      [] adapter = "dimensions" /\ stage.variant = "FetchCitations"
            /\ stage.data["missing_pub_ids"] # <<>> ->
            LET pub_id == Head(stage.data["missing_pub_ids"])
            IN  Answer({}, {<<c, pub_id>> :
                            c \in Ids(RemoteCitationsOf(r, pub_id,
                                                        stage.data["cursor"]).docs)},
                       {<<pub_id, stage.data["cursor"]>>})
      [] adapter = "academics" /\ stage.variant = "academics.FetchPublications" ->
            LET data == academics_fetch_publications(stage.data["pub_expr"],
                            stage.data["query"], stage.data["offset"])
            IN  Answer({data.pr[i].id : i \in 1..Len(data.pr)}, {}, {})
      [] adapter = "academics" /\ stage.variant = "academics.FetchCitations" ->
            LET data == academics_fetch_citations(stage.data["cit_expr"],
                            stage.data["query"], stage.data["offset"])
            IN  Answer({}, UNION {{<<data.rpi[i].paper.id, data.rpi[i].originalPaperLinks[j]>> :
                                    j \in 1..Len(data.rpi[i].originalPaperLinks)} :
                                  i \in 1..Len(data.rpi)}, {})
      [] adapter = "scholar" /\ stage.variant = "scholar.FetchFirst" ->
            Answer({Get(p.id) : p \in
                      {ScholarProfile(Get(scholar_author_id_from_url(values["url"])))
                          .self_publications[i] : i \in 1..1}}, {}, {})
      [] OTHER -> Answer({}, {}, {})

\* the source configured for an adapter and not yet crawled
CycleStart(adapter, r, faulty) ==
    [adapter |-> adapter, remote |-> r, faulty |-> faulty,
     d |-> UpdateSourceValues(FreshStore, CycleOwner, adapter,
                              [k \in {"url"} |-> UrlOf(adapter)]).d,
     failed |-> FALSE, clean |-> TRUE, done |-> FALSE, delay |-> 0,
     stage |-> InitialStageOf(adapter),
     listed |-> {}, returned |-> {}, asked |-> {}]

\* one iteration of _crawl on the source: step() and save_crawler_step;
\* `fails`: the request of this step raises.  cycle.stage is the stage the
\* step before left,
\* cycle.failed whether the last step ended in the retry Step, cycle.delay
\* the delay of the Step it returned.
CycleStep(fails) ==
    /\ cycle.adapter # ""
    /\ ~cycle.done
    /\ fails => cycle.faulty
    /\ stepped' = ~stepped
    /\ LET src == TheSource(cycle.d, CycleOwner, cycle.adapter)
           state == LoadState(src.task_json)
           from == StateOf(cycle.adapter, state).stage
           st == CrawlerStepOf(cycle.adapter, cycle.remote, src.values_json, state, fails)
           failed == ~IsNone(st.error)
           answer == IF fails THEN Answer({}, {}, {})
                     ELSE RemoteAnswer(cycle.adapter, cycle.remote, src.values_json, from)
       IN  cycle' = [cycle EXCEPT
                !.d = SavedStep(cycle.d, src, st, 0),
                !.failed = failed,
                !.delay = st.delay,
                !.clean = cycle.clean /\ ~failed,
                !.done = /\ ~failed
                         /\ \/ IsNone(st.stage)
                            \/ st.stage = Some(InitialStageOf(cycle.adapter)),
                !.stage = StateOf(cycle.adapter,
                                  LoadState(Some(stage_as_json(st)))).stage,
                !.listed = @ \cup answer.listed,
                !.returned = @ \cup answer.returned,
                !.asked = @ \cup answer.asked]
    /\ UNCHANGED <<programVarsButAuth, authVars, applied>>

InitCycle ==
    /\ ProgramAt(FreshStore, 0)
    /\ AuthAt(0, 0)
    /\ applied = NotApplied
    /\ stepped = FALSE
    /\ \E adapter \in Adapters, faulty \in BOOLEAN :
            \E r \in RemotesOf(adapter) : cycle = CycleStart(adapter, r, faulty)

NextCycle ==
    \/ CycleStep(FALSE)
    \/ CycleStep(TRUE)

CycleSpec == InitCycle /\ [][NextCycle]_vars

\* a step of the cycle, as far as its guard and its count go
Stepping ==
    /\ cycle.adapter # ""
    /\ ~cycle.done
    /\ stepped' = ~stepped

\* the scheduler goes on stepping the source whenever it is due: while a
\* step is possible, one is taken
CycleFairSpec == CycleSpec /\ WF_stepped(Stepping)

----------------------------------------------------------------------------
(* auth.py: Auth.apply_rate_limit, before login and registration *)

CLEAN_RATE_LIMIT_DELAY == 10

\* _CLEAN_RATE_LIMIT_THRESHOLD is 1000 addresses; here as many as make the
\* cleaning happen among the addresses below
CleanThreshold == 2

Remotes == {"ip1", "ip2", "ip3"}

\* the configured fail_retry_delay, after parse_delay: none, or 3 s
RetryDelays == {0, 3}

\* the loop's clock when the server starts
LoopStarts == {0, 20}

\* how far the clock goes on, and how many requests arrive
MaxLoopTicks == 5
MaxLimited == 4

\* (for contrast: a window that is still closed at its due)
AdmitsAfter(t, due) == t > due
\* `if now >= due:`
Admits(t, due) == t >= due

\* the cleaning of apply_rate_limit: what is left of the dict at time t
Cleaned(ip_to_due, last_cleaned, t) ==
    IF /\ Cardinality(DOMAIN ip_to_due) >= CleanThreshold
       /\ (t - last_cleaned) > CLEAN_RATE_LIMIT_DELAY
    THEN [k \in {k \in DOMAIN ip_to_due : ~(t >= ip_to_due[k])} |-> ip_to_due[k]]
    ELSE ip_to_due

\* apply_rate_limit(request), request.remote = remote: it returns, or
\* raises HTTPTooManyRequests
apply_rate_limit(remote) ==
    /\ nlimited < MaxLimited
    /\ nlimited' = nlimited + 1
    /\ IF fail_retry_delay = 0
       THEN /\ limited' = [remote |-> remote, ok |-> TRUE]
            /\ UNCHANGED <<rate_limit_ip_to_due, rate_limit_last_cleaned>>
       ELSE LET t == loop_time
                cleans == /\ Cardinality(DOMAIN rate_limit_ip_to_due) >= CleanThreshold
                          /\ (t - rate_limit_last_cleaned) > CLEAN_RATE_LIMIT_DELAY
                kept == Cleaned(rate_limit_ip_to_due, rate_limit_last_cleaned, t)
                due == IF remote \in DOMAIN kept THEN kept[remote] ELSE 0
            IN  /\ rate_limit_last_cleaned' = IF cleans THEN t ELSE rate_limit_last_cleaned
                /\ IF Admits(t, due)
                   THEN /\ rate_limit_ip_to_due' = DictSet(kept, remote, t + fail_retry_delay)
                        /\ limited' = [remote |-> remote, ok |-> TRUE]
                   ELSE /\ rate_limit_ip_to_due' = kept
                        /\ limited' = [remote |-> remote, ok |-> FALSE]
    /\ accepted_at' = IF limited'.ok THEN DictSet(accepted_at, remote, loop_time)
                      ELSE accepted_at
    /\ UNCHANGED <<programVarsButAuth, applied, cycleVars, fail_retry_delay, loop_time>>

\* a second passes
LoopTick ==
    /\ loop_time < MaxLoopTicks + 20
    /\ loop_time # MaxLoopTicks
    /\ loop_time' = loop_time + 1
    /\ UNCHANGED <<programVarsButAuth, applied, cycleVars, fail_retry_delay,
                   rate_limit_ip_to_due,
                   rate_limit_last_cleaned, limited, accepted_at, nlimited>>

InitAuth ==
    /\ ProgramAt(FreshStore, 0)
    /\ cycle = NoCycle
    /\ stepped = FALSE
    /\ applied = NotApplied
    /\ \E retry \in RetryDelays, t \in LoopStarts : AuthAt(retry, t)

NextAuth ==
    \/ \E remote \in Remotes : apply_rate_limit(remote)
    \/ LoopTick

AuthSpec == InitAuth /\ [][NextAuth]_vars

----------------------------------------------------------------------------
(* The program's functions applied on their own *)

programVars == <<now, epoch, storeVars, schedVars, httpVars, mergeVars, countVars,
                 histVars, authVars, cycleVars>>

StageCall(variant, kwargs) == [variant |-> variant, kwargs |-> kwargs]

\* The calls of stage classes that the adapters' _step and initial_stage
\* make, with the keyword arguments they pass
StageCalls ==
    <<StageCall("scholar.FetchFirst", EmptyDict),
      StageCall("scholar.FetchPublications", [known_pub_ids |-> <<"s1">>]),
      StageCall("scholar.FetchSinglePublication", [known_pub_ids |-> <<"s1", "s2">>]),
      StageCall("scholar.FetchSinglePublication",
                [known_pub_ids |-> <<"s1", "s2">>, offset |-> 1]),
      StageCall("scholar.FetchCitations",
                [known_pub_ids |-> <<"s1", "s2">>, offset |-> 0, cit_url |-> "c"]),
      StageCall("FetchAuthors", EmptyDict),
      StageCall("FetchPublications", EmptyDict),
      StageCall("FetchPublications",
                [known_pub_ids |-> Some(<<"p1">>), cursor |-> Some("c1")]),
      StageCall("FetchCitations", [missing_pub_ids |-> <<"p1", "p2">>]),
      StageCall("FetchCitations",
                [missing_pub_ids |-> <<"p2">>, cursor |-> Some("c2")]),
      StageCall("aminer.FetchPublications", EmptyDict),
      StageCall("aminer.FetchPublications", [offset |-> 2]),
      StageCall("aminer.FetchCitations", EmptyDict),
      StageCall("aminer.FetchCitations", [pub_offset |-> 1]),
      StageCall("aminer.FetchCitations", [pub_offset |-> 1, cit_offset |-> 3]),
      StageCall("ieeexplore.FetchPublications", EmptyDict),
      StageCall("ieeexplore.FetchCitations", [missing_pub_ids |-> <<"e1", "e2">>]),
      StageCall("ieeexplore.FetchCitations", [missing_pub_ids |-> <<>>]),
      StageCall("academics.FetchQueries", EmptyDict),
      StageCall("academics.FetchPublications",
                [pub_count |-> 2, pub_expr |-> "pe", cit_expr |-> "ce", query |-> "q"]),
      StageCall("academics.FetchPublications",
                [pub_count |-> 2, pub_expr |-> "pe", cit_expr |-> "ce", query |-> "q",
                 offset |-> 1]),
      StageCall("academics.FetchCitations", [cit_expr |-> "ce", query |-> "q"]),
      StageCall("academics.FetchCitations",
                [cit_expr |-> "ce", query |-> "q", offset |-> 1]),
      StageCall("researchgate.FetchPublications", EmptyDict),
      StageCall("researchgate.FetchToken", [known_pub_ids |-> <<"r1">>]),
      StageCall("researchgate.FetchCitations",
                [rg_token |-> "t", sid |-> "s", missing_pub_ids |-> <<"r1">>]),
      StageCall("researchgate.FetchCitations",
                [rg_token |-> "t", sid |-> "s", missing_pub_ids |-> <<"r1">>,
                 cit_offset |-> 2])>>

\* Step.error: unset, or the counter of a retry
ErrorCounters == {None, Some(1), Some(5)}

InitStages ==
    \E n \in 1..Len(StageCalls), e \in ErrorCounters :
        applied = [fn |-> "stage", n |-> n, e |-> e, out |-> <<>>]

\* the adapter builds the next stage
StageBuilt ==
    /\ applied.fn = "stage"
    /\ Len(applied.out) = 0
    /\ applied' = [applied EXCEPT !.out =
            <<Construct(StageCalls[applied.n].variant, StageCalls[applied.n].kwargs)>>]
    /\ UNCHANGED programVars

\* step.stage_as_json() of the Step that holds it
StageEncoded ==
    /\ applied.fn = "stage"
    /\ Len(applied.out) = 1
    /\ ~IsNone(applied.out[1])
    /\ applied' = [applied EXCEPT !.out = Append(@,
            stage_as_json([DefaultStep EXCEPT !.stage = applied.out[1],
                                              !.error = applied.e]))]
    /\ UNCHANGED programVars

\* the stored task_json is loaded and decoded for the next call
StageDecoded ==
    /\ applied.fn = "stage"
    /\ Len(applied.out) = 2
    /\ LET state == LoadState(Some(applied.out[2]))
           adapter == StageClassNamed(StageCalls[applied.n].variant).adapter
       IN  applied' = [applied EXCEPT !.out = Append(@,
                IF IsNone(state) THEN None ELSE DecodeStage(adapter, Get(state)))]
    /\ UNCHANGED programVars

\* Steps as the adapters' _step return them, before fix_authors:
\* Dimensions' FetchAuthors with the authors of a preview.json that lists
\* none, one, two researchers, or one researcher twice; Scholar's FetchFirst
\* with the profile's author and publications whose authors are names;
\* publications and citations with embedded authors, with and without id
RawSteps ==
    LET ann == Author(Some("rA"), "Ann A")
        cat == Author(Some("rC"), "Cat C")
        preview(ids) == [i \in 1..Len(ids) |-> [id |-> ids[i], name |-> "Ann A"]]
        by_name(n) == Embedded(Author(None, n))
        by_id(i, n) == Embedded(Author(Some(i), n))
        authors_only(as) == [DefaultStep EXCEPT !.authors = as]
        pubs_only(ps) == [DefaultStep EXCEPT !.self_publications = ps]
        cits_only(cs) == [DefaultStep EXCEPT !.citations = cs]
    IN  <<DefaultStep,
          authors_only(adapt_authors(preview(<<>>))),
          authors_only(adapt_authors(preview(<<"rA">>))),
          authors_only(adapt_authors(preview(<<"rA", "rC">>))),
          authors_only(adapt_authors(preview(<<"rA", "rA">>))),
          [DefaultStep EXCEPT
              !.authors = <<ann>>,
              !.self_publications =
                  <<Publication(Some("s1"), "T1", <<by_name("Ann A"), by_name("Bob B")>>),
                    Publication(Some("s2"), "T2", <<by_name("Ann A")>>)>>],
          pubs_only(adapt_publications(Page(<<DocP1>>, None))),
          pubs_only(adapt_publications(Page(<<DocP1, DocP2>>, None))),
          pubs_only(<<Publication(Some("p1"), "T1", <<by_id("rA", "Ann A")>>),
                      Publication(Some("p2"), "T2", <<by_id("rA", "A. A")>>)>>),
          pubs_only(<<Publication(Some("p1"), "T1", <<>>)>>),
          cits_only(<<CitEntry("p1", adapt_citations(Page(<<DocP2>>, None)))>>),
          cits_only(<<CitEntry("p1", adapt_citations(Page(<<DocP1, DocP2>>, None))),
                      CitEntry("p2", <<>>)>>),
          [DefaultStep EXCEPT
              !.self_publications = adapt_publications(Page(<<DocP2>>, None)),
              !.citations = <<CitEntry("p2", adapt_citations(Page(<<DocP1>>, None)))>>]>>

InitRawSteps ==
    \E n \in 1..Len(RawSteps) :
        applied = [fn |-> "fix_authors", n |-> n, e |-> None, out |-> <<>>]

\* step.fix_authors()
AuthorsFixed ==
    /\ applied.fn = "fix_authors"
    /\ Len(applied.out) = 0
    /\ applied' = [applied EXCEPT !.out = <<fix_authors(RawSteps[applied.n])>>]
    /\ UNCHANGED programVars

\* similarity is a float; here in tenths
SIMILARITY_THRESHOLD == 9

\* _words_re.findall(name.lower()): the runs of word characters of the
\* lowered title, for the titles of MergeStorages
Words(name) ==
    CASE name = "T1" -> <<"t1">>
      [] name = "t1!" -> <<"t1">>
      [] name = "T2" -> <<"t2">>
      [] name = "T 2" -> <<"t", "2">>
      [] name = "" -> <<>>
      [] OTHER -> <<name>>

\* similarity(a, b)
similarity(a, b) == IF Words(a.name) = Words(b.name) THEN 10 ELSE 0

\* a publication as a storage holds it: unique_path_name(), name, cit_paths
StoredPub(path, name, cit_paths) == [path |-> path, name |-> name, cit_paths |-> cit_paths]

\* a storage: user_pub_ids, and what load_pub finds
Storage(user_pub_ids, pubs) == [user_pub_ids |-> user_pub_ids, pubs |-> pubs]

\* storage.load_pub(pub_id), storage.load_pub(path=...)
load_pub(storage, path) ==
    storage.pubs[CHOOSE i \in 1..Len(storage.pubs) : storage.pubs[i].path = path]

\* merger.Merge
Merge(ns_a, ns_b, pub_a, pub_b, sim) ==
    [ns_a |-> ns_a, ns_b |-> ns_b, pub_a |-> pub_a, pub_b |-> pub_b, similarity |-> sim]

\* itertools.combinations(xs, 2), itertools.product(xs, ys): pairs of
\* positions, in the order they are produced
Combinations2(n) ==
    Concat([i \in 1..n |-> [k \in 1..(n - i) |-> <<i, i + k>>]])
Product(n, m) ==
    Concat([i \in 1..n |-> [j \in 1..m |-> <<i, j>>]])

\* the body of the inner loop of _merge for one pair of own publications:
\* the pair itself, then every pair of their citations
MergesOfPair(ns_a, storage_a, ns_b, storage_b, pub_id_a, pub_id_b) ==
    LET pub_a == load_pub(storage_a, pub_id_a)
        pub_b == load_pub(storage_b, pub_id_b)
        sim == similarity(pub_a, pub_b)
        own == IF sim >= SIMILARITY_THRESHOLD
               THEN <<Merge(ns_a, ns_b, pub_a.path, pub_b.path, sim)>>
               ELSE <<>>
        cits == Product(Len(pub_a.cit_paths), Len(pub_b.cit_paths))
        cited == Concat([k \in 1..Len(cits) |->
                    LET cit_path_a == pub_a.cit_paths[cits[k][1]]
                        cit_path_b == pub_b.cit_paths[cits[k][2]]
                        s2 == similarity(load_pub(storage_a, cit_path_a),
                                         load_pub(storage_b, cit_path_b))
                    IN  IF s2 >= SIMILARITY_THRESHOLD
                        THEN <<Merge(ns_a, ns_b, cit_path_a, cit_path_b, s2)>>
                        ELSE <<>>])
    IN  own \o cited

\* Merger._merge: `result` as it is saved.  storages is the dict as a
\* sequence of <<namespace, storage>> in the dict's order.
merge(storages) ==
    LET pairs == Combinations2(Len(storages))
    IN  Concat([k \in 1..Len(pairs) |->
            LET ns_a == storages[pairs[k][1]][1]
                storage_a == storages[pairs[k][1]][2]
                ns_b == storages[pairs[k][2]][1]
                storage_b == storages[pairs[k][2]][2]
                ids == Product(Len(storage_a.user_pub_ids), Len(storage_b.user_pub_ids))
            IN  Concat([m \in 1..Len(ids) |->
                    MergesOfPair(ns_a, storage_a, ns_b, storage_b,
                                 storage_a.user_pub_ids[ids[m][1]],
                                 storage_b.user_pub_ids[ids[m][2]])])])

\* The storages a merger is built on, in the orders of the two registries
\* of adapters (scholar, academics, aminer, ieeexplore, researchgate; and
\* aminer, dimensions, ieeexplore, academics, researchgate, scholar): own
\* publications with equal and with different titles, with and without
\* citations
MergeStorages ==
    LET own(prefix, names) ==
            Storage([i \in 1..Len(names) |-> prefix \o ToString(i)],
                    [i \in 1..Len(names) |->
                        StoredPub(prefix \o ToString(i), names[i], <<>>)])
        cited(prefix, name, cit_name) ==
            Storage(<<prefix \o "1">>,
                    <<StoredPub(prefix \o "1", name, <<prefix \o "c">>),
                      StoredPub(prefix \o "c", cit_name, <<>>)>>)
    IN  <<<<>>,
          <<<<"dimensions", own("pub/d", <<"T1", "T2">>)>>>>,
          <<<<"dimensions", own("pub/d", <<"T1", "T2">>)>>,
            <<"ieeexplore", own("pub/e", <<"t1!", "T 2">>)>>>>,
          <<<<"dimensions", own("pub/d", <<"T1">>)>>,
            <<"ieeexplore", own("pub/e", <<"T2">>)>>>>,
          <<<<"aminer", own("pub/a", <<"T1">>)>>,
            <<"dimensions", own("pub/d", <<"T1", "T1">>)>>,
            <<"ieeexplore", own("pub/e", <<"T2", "T1">>)>>>>,
          <<<<"dimensions", cited("pub/d", "T1", "T2")>>,
            <<"ieeexplore", cited("pub/e", "T1", "T2")>>>>,
          <<<<"dimensions", cited("pub/d", "T1", "T2")>>,
            <<"ieeexplore", cited("pub/e", "T 2", "T2")>>>>,
          <<<<"dimensions", cited("pub/d", "T1", "T2")>>,
            <<"ieeexplore", cited("pub/e", "T1", "T 2")>>>>,
          <<<<"ieeexplore", own("pub/e", <<"T1">>)>>,
            <<"academics", own("pub/m", <<"T1">>)>>>>,
          <<<<"scholar", own("pub/s", <<"T1", "T2">>)>>,
            <<"academics", own("pub/m", <<"T2">>)>>,
            <<"aminer", own("pub/a", <<"T1">>)>>>>>>

InitStorages ==
    \E n \in 1..Len(MergeStorages) :
        applied = [fn |-> "_merge", n |-> n, e |-> None, out |-> <<>>]

\* await self._merge()
Merged ==
    /\ applied.fn = "_merge"
    /\ Len(applied.out) = 0
    /\ applied' = [applied EXCEPT !.out = <<merge(MergeStorages[applied.n])>>]
    /\ UNCHANGED programVars

\* the rows of the SELECT of get_publications(username): Publication JOIN
\* PublicationAuthors JOIN Author LEFT JOIN Cites, of the user's by_self
\* publications; cit_path is None where no Cites row matches
PublicationsJoin(d, username) ==
    UNION {UNION {UNION {
        LET cs == {c \in d.Cites : c.owner = q.owner /\ c.source = q.source
                                    /\ c.pub_path = q.path}
            row(cit) == [source |-> q.source, pub_path |-> q.path, pub_name |-> q.name,
                         author_name |-> a.full_name, cit_path |-> cit]
        IN  IF cs = {} THEN {row(None)} ELSE {row(Some(c.cited_by)) : c \in cs}
        : a \in {a \in d.Author : a.owner = q.owner /\ a.source = q.source
                                    /\ a.path = pa.author_path}}
        : pa \in {pa \in d.PublicationAuthors : pa.owner = q.owner
                        /\ pa.source = q.source /\ pa.pub_path = q.path}}
        : q \in {q \in d.Publication : q.owner = username /\ q.by_self = 1}}

\* get_publications(username): the dict `publications` keyed by pub_path
\* alone, as the list returns it: one entry per path, with the sources,
\* authors and citing paths of every row of that path.  The name is that of
\* whichever row of the path the cursor yields first.
get_publications(d, username) ==
    LET rows == PublicationsJoin(d, username)
        of(path) == {r \in rows : r.pub_path = path}
    IN  {[sources |-> {r.source : r \in of(path)},
          name |-> {r.pub_name : r \in of(path)},
          authors |-> {r.author_name : r \in of(path)},
          cites |-> Cardinality({r.cit_path : r \in of(path)} \ {None})]
            : path \in {r.pub_path : r \in rows}}

\* a source `key` of `owner` after one saved step with these publications
SourceWith(d, owner, key, pubs, citations) ==
    LET e == UpdateSourceValues(d, owner, key, [k \in {"url"} |-> URL_A]).d
        st == fix_authors([DefaultStep EXCEPT !.self_publications = pubs,
                                              !.citations = citations])
    IN  SavedStep(e, TheSource(e, owner, key), st, FULL_CYCLE_DELAY)

\* The databases get_publications reads: one publication in one source,
\* cited once; one title under different ids in two sources, linked by a
\* Merge row; one id in two sources, never merged; two unrelated
\* publications in two sources
ReadStores ==
    LET ann == Embedded(Author(Some("rA"), "Ann A"))
        cited == SourceWith(FreshStore, "u1", "dimensions",
                    <<Publication(Some("p1"), "T1", <<ann>>)>>,
                    <<CitEntry("p1", <<Publication(Some("p2"), "T2", <<ann>>)>>)>>)
        two(id_a, name_a, id_b, name_b) ==
            SourceWith(SourceWith(FreshStore, "u1", "dimensions",
                                  <<Publication(Some(id_a), name_a, <<ann>>)>>, <<>>),
                       "u1", "ieeexplore",
                       <<Publication(Some(id_b), name_b, <<ann>>)>>, <<>>)
    IN  <<FreshStore,
          cited,
          save_merges(two("p1", "T1", "e1", "T1"), "u1",
              <<MergeOf("dimensions", PathP1, "ieeexplore", PathE1, 10)>>).d,
          two("p1", "T1", "p1", "T3"),
          two("p1", "T1", "e1", "T3")>>

InitReads ==
    \E n \in 1..Len(ReadStores) :
        applied = [fn |-> "get_publications", n |-> n, e |-> None, out |-> <<>>]

\* GET /rest/publications: get_publications(username)
PublicationsRead ==
    /\ applied.fn = "get_publications"
    /\ Len(applied.out) = 0
    /\ applied' = [applied EXCEPT !.out = <<get_publications(ReadStores[applied.n], "u1")>>]
    /\ UNCHANGED programVars

MIN_PASSWORD_LENGTH == 5
MAX_DETAILS_LENGTH == 128

\* a string is the sequence of its characters; [a-z]
LowercaseLetters ==
    {"a", "b", "c", "d", "e", "f", "g", "h", "i", "j", "k", "l", "m",
     "n", "o", "p", "q", "r", "s", "t", "u", "v", "w", "x", "y", "z"}

\* USERNAME_RE.match(username), USERNAME_RE = re.compile(r"[a-z]+"): match
\* looks for the pattern at the start of the string and does not require it
\* to reach the end
USERNAME_RE_match(username) ==
    \E k \in 1..Len(username) : \A i \in 1..k : username[i] \in LowercaseLetters

\* _check_password(password): whether it raises HTTPBadRequest
check_password_raises(password) ==
    \/ Len(password) < MIN_PASSWORD_LENGTH
    \/ Len(password) > MAX_DETAILS_LENGTH

\* Users.register(username, password) with self._users = users: the status
\* of the answer and self._users afterwards
register(users, username, password) ==
    IF Len(username) > MAX_DETAILS_LENGTH THEN [status |-> 400, users |-> users]
    ELSE IF ~USERNAME_RE_match(username) THEN [status |-> 400, users |-> users]
    ELSE IF username \in users THEN [status |-> 400, users |-> users]
    ELSE IF check_password_raises(password) THEN [status |-> 400, users |-> users]
    ELSE [status |-> 200, users |-> users \cup {username}]

\* the users registered before the call
RegisteredUsers == {<<"b", "o", "b">>}

\* the usernames and passwords of the calls
Usernames ==
    << <<>>, <<"a", "b", "c">>, <<"z">>, <<"b", "o", "b">>, <<"a", "b", "1">>,
       <<"a", "_", "c">>, <<"a", " ">>, <<"A", "b", "c">>, <<"1", "a", "b">>,
       <<"a", "B">>, <<"_">>, [i \in 1..(MAX_DETAILS_LENGTH + 1) |-> "a"],
       [i \in 1..MAX_DETAILS_LENGTH |-> "a"] >>
Passwords ==
    << <<"s", "e", "c", "r", "e", "t">>, <<"s", "e", "c", "r">>,
       <<"s", "e", "c", "r", "e">>, [i \in 1..(MAX_DETAILS_LENGTH + 1) |-> "x"] >>

InitRegisters ==
    \E n \in 1..Len(Usernames), e \in 1..Len(Passwords) :
        applied = [fn |-> "register", n |-> n, e |-> Some(e), out |-> <<>>]

\* POST /rest/user/register: users.register(username, password)
Registered ==
    /\ applied.fn = "register"
    /\ Len(applied.out) = 0
    /\ applied' = [applied EXCEPT !.out =
            <<register(RegisteredUsers, Usernames[applied.n], Passwords[Get(applied.e)])>>]
    /\ UNCHANGED programVars

\* Steps to save: those above, and one whose records without id are
\* named as other records' ids
SaveSteps ==
    RawSteps \o
    << [DefaultStep EXCEPT
          !.authors = <<Author(Some("rA"), "Ann A"), Author(None, "rA")>>,
          !.self_publications =
              <<Publication(Some("T1"), "T1", <<Embedded(Author(Some("rA"), "Ann A"))>>),
                Publication(None, "T1", <<Embedded(Author(None, "rA"))>>)>>,
          !.citations =
              <<CitEntry("T1",
                  <<Publication(None, "T9", <<Embedded(Author(Some(""), "Ed E"))>>),
                    Publication(Some("T9"), "T9", <<>>)>>)>>] >>

\* the stores they are saved to: the source configured, and crawled
SaveStores ==
    <<Configured("u1", URL_A), Crawled(Configured("u1", URL_A), "u1", 3, FALSE)>>

InitSaves ==
    \E n \in 1..Len(SaveSteps), e \in 1..Len(SaveStores) :
        applied = [fn |-> "save_crawler_step", n |-> n, e |-> Some(e), out |-> <<>>]

\* save_crawler_step(source, step) of the step after fix_authors, on the
\* store as it is: the first time, and again
StepSaved ==
    /\ applied.fn = "save_crawler_step"
    /\ Len(applied.out) < 2
    /\ LET d == IF Len(applied.out) = 0 THEN SaveStores[Get(applied.e)]
                ELSE applied.out[1]
       IN  applied' = [applied EXCEPT !.out =
                @ \o <<SavedStep(d, TheSource(d, "u1", "dimensions"),
                                 fix_authors(SaveSteps[applied.n]), 0)>>]
    /\ UNCHANGED programVars

\* users.py: Users, its dict _users {username: {password, token}} and its
\* dict _token_to_user
UsersOf(users, token_to_user) == [users |-> users, token_to_user |-> token_to_user]

\* the tokens _gen_token may draw, the accounts and the passwords sent
Tokens == {"t1", "t2", "t3"}
Accounts == {"ann", "bob"}
Secrets == {"secret", "wrong"}
\* calls of one run
MaxCalls == 3

\* both users registered with the password "secret" and logged out
SignedOut ==
    UsersOf([u \in Accounts |-> [password |-> "secret", token |-> None]], EmptyDict)

\* (for contrast: a login that forgets the token the user had)
login_replacing(st, username, password, token) ==
    IF username \notin DOMAIN st.users THEN st
    ELSE IF password # st.users[username].password THEN st
    ELSE UsersOf([st.users EXCEPT ![username].token = Some(token)],
                 DictSet([t \in {t \in DOMAIN st.token_to_user :
                                    st.token_to_user[t] # username} |->
                            st.token_to_user[t]],
                         token, username))
\* Users.login(username, password), token the one _gen_token returns; the
\* state is unchanged when it raises
login(st, username, password, token) ==
    IF username \notin DOMAIN st.users THEN st
    ELSE IF password # st.users[username].password THEN st
    ELSE UsersOf([st.users EXCEPT ![username].token = Some(token)],
                 DictSet(st.token_to_user, token, username))

\* Users.logout(token): the pop, then self._users[user]["token"] = None,
\* which raises KeyError for a user that is gone
logout(st, token) ==
    IF token \notin DOMAIN st.token_to_user THEN st
    ELSE LET user == st.token_to_user[token]
         IN  UsersOf(IF user \in DOMAIN st.users
                     THEN [st.users EXCEPT ![user].token = None]
                     ELSE st.users,
                     DictDel(st.token_to_user, token))

\* Users.delete(token): the pop, then del self._users[user]
delete(st, token) ==
    IF token \notin DOMAIN st.token_to_user THEN st
    ELSE UsersOf(DictDel(st.users, st.token_to_user[token]),
                 DictDel(st.token_to_user, token))

\* Users.username_of(token=token)
username_of(st, token) ==
    IF token \in DOMAIN st.token_to_user THEN Some(st.token_to_user[token]) ELSE None

\* the tokens that authenticate as the user
TokensOf(st, username) == {t \in Tokens : username_of(st, t) = Some(username)}

\* applied.out holds the Users object, applied.e the last call that changed
\* it and applied.n the number of calls
Called(op, username, token) == [op |-> op, username |-> username, token |-> token]

InitUsers == applied = [fn |-> "users", n |-> 0, e |-> None, out |-> <<SignedOut>>]

\* POST /rest/user/login
UsersLogin ==
    /\ applied.fn = "users"
    /\ applied.n < MaxCalls
    /\ \E username \in Accounts, password \in Secrets :
        \E token \in Tokens \ DOMAIN applied.out[1].token_to_user :
            LET st == login(applied.out[1], username, password, token)
            IN  applied' = [fn |-> "users", n |-> applied.n + 1,
                            e |-> IF st = applied.out[1] THEN None
                                  ELSE Some(Called("login", username, token)),
                            out |-> <<st>>]
    /\ UNCHANGED programVars

\* POST /rest/user/logout
UsersLogout ==
    /\ applied.fn = "users"
    /\ applied.n < MaxCalls
    /\ \E token \in Tokens :
            LET st == logout(applied.out[1], token)
            IN  applied' = [fn |-> "users", n |-> applied.n + 1,
                            e |-> IF st = applied.out[1] THEN None
                                  ELSE Some(Called("logout",
                                        applied.out[1].token_to_user[token], token)),
                            out |-> <<st>>]
    /\ UNCHANGED programVars

\* POST /rest/user/delete
UsersDelete ==
    /\ applied.fn = "users"
    /\ applied.n < MaxCalls
    /\ \E token \in Tokens :
            LET st == delete(applied.out[1], token)
            IN  applied' = [fn |-> "users", n |-> applied.n + 1,
                            e |-> IF st = applied.out[1] THEN None
                                  ELSE Some(Called("delete",
                                        applied.out[1].token_to_user[token], token)),
                            out |-> <<st>>]
    /\ UNCHANGED programVars

\* crawlers/__init__.py: the namespaces of the registered adapters
CRAWLERS ==
    {"aminer", "dimensions", "ieeexplore", "academics", "researchgate", "scholar"}

\* CRAWLERS[source].validate_field(key, value) returns; FALSE when it, or
\* the lookup of the source, raises.  The values here are the URLs above,
\* which the adapters of the other hosts refuse.
Validates(src, key, value) ==
    /\ src \in CRAWLERS
    /\ key = "url"
    /\ CASE src = "dimensions" -> ~IsNone(author_id_from_url(value))
         [] src = "academics" -> ~IsNone(academics_author_id_from_url(value))
         [] src = "scholar" -> ~IsNone(scholar_author_id_from_url(value))
         [] OTHER -> FALSE

\* update_source_values(username, sources) for the sources named `keys`,
\* inside its transaction
RECURSIVE UpdateEach(_, _, _, _)
UpdateEach(d, username, sources, keys) ==
    IF keys = {} THEN Outcome(TRUE, d)
    ELSE LET k == CHOOSE k \in keys : TRUE
             o == UpdateSourceValues(d, username, k, sources[k])
         IN  IF o.ok THEN UpdateEach(o.d, username, sources, keys \ {k}) ELSE o

\* update_source_values: every row written, or on an sqlite3 error none
update_source_values(d, username, sources) ==
    LET o == UpdateEach(d, username, sources, DOMAIN sources)
    IN  IF o.ok THEN o.d ELSE d

\* Scheduler.update_source_fields(username, sources): the store it leaves
\* and the (source, key) of the errors it returns.  The values carry no
\* surrounding whitespace, so value.strip() is the value; URL_EMPTY is "".
update_source_fields(d, username, sources) ==
    LET values == get_source_values(d, username)
        pairs == UNION {{<<src, k>> : k \in DOMAIN sources[src]} : src \in DOMAIN sources}
        Same(p) == /\ p[1] \in DOMAIN values
                   /\ p[2] \in DOMAIN values[p[1]]
                   /\ values[p[1]][p[2]] = sources[p[1]][p[2]]
        Raises(p) == /\ sources[p[1]][p[2]] # URL_EMPTY
                     /\ ~Validates(p[1], p[2], sources[p[1]][p[2]])
        accepted == {p \in pairs : ~Same(p) /\ ~Raises(p)}
        changed_sources == {p[1] : p \in accepted}
        Before(src) == IF src \in DOMAIN values THEN values[src] ELSE EmptyDict
        After(src) ==
            [k \in DOMAIN Before(src) \cup {p[2] : p \in {p \in accepted : p[1] = src}} |->
                IF <<src, k>> \in accepted THEN sources[src][k] ELSE Before(src)[k]]
    IN  [d |-> update_source_values(d, username,
                    [src \in changed_sources |-> After(src)]),
         errors |-> {p \in pairs : ~Same(p) /\ Raises(p)}]

\* the payloads of POST /rest/user/profile, and the stores they arrive at
ProfileRequests ==
    << [src \in {"dimensions"} |-> [k \in {"url"} |-> URL_A]],
       [src \in {"dimensions"} |-> [k \in {"url"} |-> URL_BAD]],
       [src \in {"dimensions"} |-> [k \in {"url"} |-> URL_EMPTY]],
       [src \in {"nosuch"} |-> [k \in {"url"} |-> URL_A]],
       [src \in {"nosuch"} |-> [k \in {"url"} |-> URL_EMPTY]],
       [src \in {"dimensions"} |-> [k \in {"other"} |-> URL_A]],
       [src \in {"dimensions"} |-> [k \in {"other"} |-> URL_EMPTY]],
       [src \in {"dimensions"} |->
            [k \in {"url", "other"} |-> IF k = "url" THEN URL_B ELSE URL_A]],
       [src \in {"dimensions", "academics"} |->
            [k \in {"url"} |-> IF src = "dimensions" THEN URL_BAD ELSE URL_ACADEMICS]],
       [src \in {"dimensions", "scholar"} |->
            [k \in {"url"} |-> IF src = "dimensions" THEN URL_B ELSE URL_A]] >>
ProfileStores == <<FreshStore, Configured("u1", URL_A)>>

InitProfiles ==
    \E n \in 1..Len(ProfileRequests), e \in 1..Len(ProfileStores) :
        applied = [fn |-> "update_source_fields", n |-> n, e |-> Some(e), out |-> <<>>]

\* POST /rest/user/profile: update_source_fields(username, payload)
ProfileUpdated ==
    /\ applied.fn = "update_source_fields"
    /\ Len(applied.out) = 0
    /\ applied' = [applied EXCEPT !.out =
            <<update_source_fields(ProfileStores[Get(applied.e)], "u1",
                                   ProfileRequests[applied.n])>>]
    /\ UNCHANGED programVars

InitFunctions ==
    /\ InitOn(FreshStore)
    /\ \/ InitStages
       \/ InitRawSteps
       \/ InitStorages
       \/ InitReads
       \/ InitRegisters
       \/ InitProfiles
       \/ InitUsers
       \/ InitSaves

NextFunctions ==
    \/ StageBuilt
    \/ StageEncoded
    \/ StageDecoded
    \/ AuthorsFixed
    \/ Merged
    \/ PublicationsRead
    \/ Registered
    \/ ProfileUpdated
    \/ UsersLogin
    \/ UsersLogout
    \/ UsersDelete
    \/ StepSaved

FunctionsSpec == InitFunctions /\ [][NextFunctions]_vars

----------------------------------------------------------------------------
(* Properties *)

\* every row of `st` written for `src`, and the source advanced to its
\* stage and a due computed at time t
StepStored(d, src, st, t) ==
    /\ \A i \in 1..Len(st.authors) :
        \E r \in d.Author :
            /\ PathKey(r) = <<src.owner, src.key, AuthorPath(st.authors[i])>>
    /\ \A i \in 1..Len(st.self_publications) :
        \E r \in d.Publication :
            /\ PathKey(r) = <<src.owner, src.key, PubPath(st.self_publications[i])>>
    /\ \A i \in 1..Len(st.citations) : \A j \in 1..Len(st.citations[i].pubs) :
        /\ \E r \in d.Publication :
            PathKey(r) = <<src.owner, src.key, PubPath(st.citations[i].pubs[j])>>
        /\ \E c \in d.Cites :
            /\ c.owner = src.owner /\ c.source = src.key
            /\ c.cited_by = PubPath(st.citations[i].pubs[j])
        /\ \A k \in 1..Len(st.citations[i].pubs[j].authors) :
            \E pa \in d.PublicationAuthors :
                /\ pa.owner = src.owner /\ pa.source = src.key
                /\ pa.pub_path = PubPath(st.citations[i].pubs[j])
                /\ pa.author_path = st.citations[i].pubs[j].authors[k].path
    /\ \A i \in 1..Len(st.self_publications) :
        \A k \in 1..Len(st.self_publications[i].authors) :
            \E pa \in d.PublicationAuthors :
                /\ pa.owner = src.owner /\ pa.source = src.key
                /\ pa.pub_path = PubPath(st.self_publications[i])
                /\ pa.author_path = st.self_publications[i].authors[k].path
    /\ \E r \in d.Source :
        /\ SourceKey(r) = SourceKey(src)
        /\ r.task_json = Some(stage_as_json(st))
        /\ r.due \in {t + st.delay + j :
                        j \in (-(st.delay \div 20) - 1)..(st.delay \div 20)}

\* C1: while save_crawler_step runs, and after it has failed with its
\* transaction left open, the durable database does not change, except at
\* the COMMIT, where every row of the step and the source's new task_json
\* and due become durable together.
C1_SaveIsAtomic ==
    [][(pc \in SavePhases \/ txn = "orphan") =>
        \/ db' = db
        \/ /\ pc = "save_commit"
           /\ txn = "crawl"
           /\ StepStored(db', Get(source), step, now)]_vars

\* C1, its case: the save failed after rows were written, and none is durable
C1_Witness ==
    /\ pc = "exited"
    /\ txn = "orphan"
    /\ view.Publication # db.Publication
    /\ view.Source # db.Source

C3_LoopsKeepRunning ==
    /\ pc # "exited"
    /\ mpc # "exited"

\* C4: a selection returns a row of minimal due, and the loop that steps the
\* rows is alive as long as there are rows to step
C4_MinimalDueAndNoStarvation ==
    [][/\ (pc = "select" /\ pc' = "selected" /\ ~IsNone(source')) =>
            \A r \in view.Source : Get(source').due <= r.due
       /\ view'.Source # {} => pc' # "exited"]_vars

\* C5: a durable Publication row with by_self = 1 keeps by_self = 1
C5_BySelfIsKept ==
    [][\A r \in db.Publication : r.by_self = 1 =>
        \A q \in db'.Publication : PathKey(q) = PathKey(r) => q.by_self = 1]_vars

\* C6: the first selection the scheduler makes once update_source_fields
\* has changed a row finds that row with due = 0, whatever step was in
\* flight meanwhile (a selection that reads the row before the request has
\* returned has seen the update)
C6_UpdatedRowSeenDue ==
    \A s \in seen : s[2] = 0

\* C7: once update_source_values has updated an existing row, the row's
\* task_json is null
C7_UpdateClearsTask ==
    (hpc = "commit" /\ hreq.changed /\ hreq.rowcount = 1) =>
        TheSource(view, hreq.username, hreq.key).task_json \in {None, Some(JsonNull)}

\* C8: the adapter is called with the state the source's last committed
\* step persisted: its stage variant and every field of it
C8_ResumesFromPersisted ==
    (pc = "stepping" /\ SourceKey(Get(source)) \in DOMAIN persisted) =>
        LET j == persisted[SourceKey(Get(source))]
        IN  j # JsonNull =>
                /\ invoked.state = Some(j)
                /\ StageIndex(DecodeState(invoked.state).stage.variant) = j["_index"]
                /\ \A k \in DOMAIN j \ {"_index", "_error"} :
                    DecodeState(invoked.state).stage.data[k] = j[k]

\* C8, its case: after a restart, a step resumes at FetchCitations with the
\* ids that the steps before the restart had collected
C8_Witness ==
    /\ nrestarts > 0
    /\ pc = "stepping"
    /\ ~IsNone(invoked.state)
    /\ DecodeState(invoked.state).stage.variant = "FetchCitations"
    /\ DecodeState(invoked.state).stage.data["missing_pub_ids"] # <<>>

\* C9: when the adapter is called, the row read at selection is due, and
\* its due was at most MAX_SLEEP away when it was selected
C9_NeverBeforeDue ==
    pc = "stepping" =>
        /\ now >= Get(source).due
        /\ delay <= 60

\* C9, its case: a step that had to wait for its row
C9_Witness ==
    /\ pc = "stepping"
    /\ delay > 0
    /\ now = Get(source).due

\* C10: notified while waiting for a row that is not yet due, the scheduler
\* does not call the adapter; it goes back to reading the soonest-due row
C10_WakeRereads ==
    [][(pc = "wait_due" /\ crawl_notify /\ now < deadline) =>
        pc' \in {"wait_due", "select"}]_vars

\* C10, its case: the event is set during the wait for a row
C10_Witness ==
    /\ pc = "wait_due"
    /\ crawl_notify
    /\ now < deadline
    /\ delay > 0

\* C11: at most one step is in flight, and a step begins only when none is
\* and the transaction of the step before it is over, committed or failed;
\* this holds whether the two steps are of one source or of two
C11_OneStepAtATime ==
    [][/\ Cardinality(inflight') <= 1
       /\ (inflight' # inflight /\ inflight' # {}) =>
            /\ inflight = {}
            /\ txn # "crawl"
            /\ pc \notin SavePhases \cup {"stepping", "save_begin"}]_vars

\* C11, its case: a step of one source begins after a step of another is over
C11_Witness ==
    /\ pc = "stepping"
    /\ Cardinality(inflight) = 1
    /\ ~IsNone(last_done)
    /\ Get(last_done) # SourceKey(Get(source))

\* C12: every stage an adapter builds exists, and what is decoded from its
\* stage_as_json is that stage with every argument the adapter gave it,
\* the id lists of Scholar's stages among them, whether or not an _error
\* counter rides along
C12_StageRoundTrip ==
    applied.fn = "stage" =>
        LET call == StageCalls[applied.n]
        IN  /\ Len(applied.out) >= 1 => ~IsNone(applied.out[1])
            /\ Len(applied.out) = 3 =>
                /\ ~IsNone(applied.out[3])
                /\ Get(applied.out[3]).stage = Get(applied.out[1])
                /\ \A k \in DOMAIN call.kwargs :
                    /\ k \in DOMAIN Get(applied.out[3]).stage.data
                    /\ Get(applied.out[3]).stage.data[k] = call.kwargs[k]

\* the publications of a step: its own and the citing ones
StepPublications(st) ==
    st.self_publications
        \o Concat([i \in 1..Len(st.citations) |-> st.citations[i].pubs])

\* every author of every publication of the step is a path, and the path
\* of a record in the step's authors
AuthorsAreKnownPaths(st) ==
    \A i \in 1..Len(StepPublications(st)) :
        \A j \in 1..Len(StepPublications(st)[i].authors) :
            LET a == StepPublications(st)[i].authors[j]
            IN  /\ ~IsAuthor(a)
                /\ \E k \in 1..Len(st.authors) : AuthorPath(st.authors[k]) = a.path

\* C13: after fix_authors every author of every publication, own or citing,
\* is a path and the path of a record in Step.authors, and no two records
\* of Step.authors have one path
C13_AuthorsArePathsAndUnique ==
    (applied.fn = "fix_authors" /\ Len(applied.out) = 1) =>
        LET st == applied.out[1]
        IN  /\ AuthorsAreKnownPaths(st)
            /\ \A i, j \in 1..Len(st.authors) :
                    AuthorPath(st.authors[i]) = AuthorPath(st.authors[j]) => i = j

\* what the foreign keys of Cites, PublicationAuthors and Merge promise of
\* the tables d
ReferencesResolve(d) ==
    /\ \A r \in d.Cites :
          /\ \E p \in d.Publication :
                p.owner = r.owner /\ p.source = r.source /\ p.path = r.pub_path
          /\ \E p \in d.Publication :
                p.owner = r.owner /\ p.source = r.source /\ p.path = r.cited_by
    /\ \A r \in d.PublicationAuthors :
          /\ \E p \in d.Publication :
                p.owner = r.owner /\ p.source = r.source /\ p.path = r.pub_path
          /\ \E a \in d.Author :
                a.owner = r.owner /\ a.source = r.source /\ a.path = r.author_path
    /\ \A r \in d.Merge :
          /\ \E p \in d.Publication :
                p.owner = r.owner /\ p.source = r.source_a /\ p.path = r.pub_a
          /\ \E p \in d.Publication :
                p.owner = r.owner /\ p.source = r.source_b /\ p.path = r.pub_b

\* C14: after any steps, merges, source updates and deletions of users,
\* every publication that Cites, PublicationAuthors and Merge name is a row
\* of Publication of the same owner and source, and every author that
\* PublicationAuthors names is a row of Author; in the file, and as the
\* connection sees it inside a transaction
C14_ReferencesResolve == ReferencesResolve(db) /\ ReferencesResolve(view)

\* C14, its case: merges were saved and a user deleted, and all three
\* tables have rows
C14_Witness ==
    /\ db.Merge # {}
    /\ db.Cites # {}
    /\ db.PublicationAuthors # {}
    /\ db.User # Owners
    /\ merging.merges # <<>>

\* the rows of a merge cycle and the publications it ran on
MergeRows == applied.out[1]
MergedOn == MergeStorages[applied.n]

\* <<namespace, path>> of every own publication of the storages
OwnPubs(storages) ==
    UNION {{<<storages[i][1], storages[i][2].user_pub_ids[j]>> :
                j \in 1..Len(storages[i][2].user_pub_ids)} : i \in 1..Len(storages)}

NameOf(storages, ns, path) ==
    LET i == CHOOSE i \in 1..Len(storages) : storages[i][1] = ns
    IN  load_pub(storages[i][2], path).name

\* the cross-source pairs of own publications whose titles have the same
\* words, each as the set of its two ends
SimilarOwnPairs(storages) ==
    {{a, b} : a, b \in OwnPubs(storages)} \cap
    {e \in SUBSET OwnPubs(storages) :
        \E a, b \in e :
            /\ e = {a, b}
            /\ a[1] # b[1]
            /\ Words(NameOf(storages, a[1], a[2])) = Words(NameOf(storages, b[1], b[2]))}

\* C15: the rows of one merge cycle are exactly the cross-source pairs of
\* own publications whose similarity is at least 0.9; no row has an end that
\* is known only as a citation
C15_OnlyOwnPublicationsMerged ==
    (applied.fn = "_merge" /\ Len(applied.out) = 1) =>
        /\ {{<<MergeRows[k].ns_a, MergeRows[k].pub_a>>,
              <<MergeRows[k].ns_b, MergeRows[k].pub_b>>} : k \in 1..Len(MergeRows)}
             = SimilarOwnPairs(MergedOn)
        /\ \A k \in 1..Len(MergeRows) :
              /\ <<MergeRows[k].ns_a, MergeRows[k].pub_a>> \in OwnPubs(MergedOn)
              /\ <<MergeRows[k].ns_b, MergeRows[k].pub_b>> \in OwnPubs(MergedOn)

\* the place of a source key in lexicographic order
KeyRank(key) ==
    CASE key = "academics" -> 1
      [] key = "aminer" -> 2
      [] key = "dimensions" -> 3
      [] key = "ieeexplore" -> 4
      [] key = "researchgate" -> 5
      [] key = "scholar" -> 6

\* C16: every row of a merge cycle has source_a before source_b in
\* lexicographic order, so no row pairs a source with itself, and its
\* similarity is between 0 and 1
C16_SourcesOrdered ==
    (applied.fn = "_merge" /\ Len(applied.out) = 1) =>
        \A k \in 1..Len(MergeRows) :
            /\ KeyRank(MergeRows[k].ns_a) < KeyRank(MergeRows[k].ns_b)
            /\ MergeRows[k].ns_a # MergeRows[k].ns_b
            /\ MergeRows[k].similarity \in 0..10

\* the Merge rows of `owner` among rows, and those of everyone else
MergesOf(rows, owner) == {r \in rows : r.owner = owner}
MergesOfOthers(rows, owner) == {r \in rows : r.owner # owner}

\* C17: when save_merges(owner, merges) commits, the owner's durable Merge
\* rows are exactly the given merges and every other owner's rows are what
\* they were when it was called; when it fails, at its BEGIN, at a
\* statement, at its COMMIT or because the process stops, every Merge row
\* the owner had is still durable
C17_MergesReplaced ==
    [][/\ (mpc = "save_merges" /\ mpc' = "wait" /\ nrestarts' = nrestarts) =>
            /\ MergesOf(db'.Merge, merging.username) =
                 {MergeRow(merging.username, merging.merges[i].source_a,
                           merging.merges[i].source_b, merging.merges[i].pub_a,
                           merging.merges[i].pub_b, merging.merges[i].similarity)
                    : i \in 1..Len(merging.merges)}
            /\ MergesOfOthers(db'.Merge, merging.username) =
                 MergesOfOthers(merging.before, merging.username)
       /\ (\/ mpc = "save_merges" /\ (mpc' = "exited" \/ nrestarts' # nrestarts)
           \/ mpc = "wait" /\ nmerges' # nmerges /\ mpc' = "exited") =>
            MergesOf(merging'.before, merging'.username) \subseteq db'.Merge]_vars

\* C17, its case: a save has committed that replaced the row of an earlier
\* cycle, next to the rows of another owner
C17_Witness ==
    /\ mpc = "wait"
    /\ txn = "none"
    /\ merging.username = "u1"
    /\ MergesOf(merging.before, "u1") # {}
    /\ MergesOf(db.Merge, "u1") # {}
    /\ MergesOf(db.Merge, "u1") \cap merging.before = {}
    /\ MergesOfOthers(db.Merge, "u1") # {}

\* C18: force_merge answers false exactly when a merge is running, and true
\* when the merger is waiting
C18_FalseIffRunning ==
    forced # NotForced =>
        /\ (forced.ok = FALSE) <=> (forced.at = "merge")
        /\ forced.at = "wait" => forced.ok

\* C19: a request that was answered true is followed by a merge that begins
\* after it without waiting out the period; so the merger never waits with
\* such a request outstanding and the event clear
C19_ForcedMergeFollows ==
    (owed /\ mpc = "wait") => force_check

\* the url of the selected source is missing or empty
UrlUnset ==
    \/ "url" \notin DOMAIN Get(source).values_json
    \/ Get(source).values_json["url"] = URL_EMPTY

\* C20: the step of a source whose url is missing or empty raises nothing
\* and carries no records: it is stage = null with a delay of one day
C20_UnsetSourceSkipped ==
    (pc = "save_begin" /\ UrlUnset) =>
        /\ ~invoked.failed
        /\ step.stage = None
        /\ step.delay = 24 * 60 * 60
        /\ step.authors = <<>>
        /\ step.self_publications = <<>>
        /\ step.citations = <<>>

\* every row of the tables d, other than User's, that `owner` owns
RowsOf(d, owner) ==
    [Source |-> {r \in d.Source : r.owner = owner},
     Author |-> {r \in d.Author : r.owner = owner},
     Publication |-> {r \in d.Publication : r.owner = owner},
     PublicationAuthors |-> {r \in d.PublicationAuthors : r.owner = owner},
     Cites |-> {r \in d.Cites : r.owner = owner},
     Merge |-> {r \in d.Merge : r.owner = owner}]

NoRows == RowsOf(EmptyTables, "")

\* C21: once delete_user(u) has succeeded no table holds a row of u, neither
\* at once nor after the step that was in flight for a source of u is saved;
\* and the deletion leaves the rows of every other user as they were
C21_DeletedUserOwnsNothing ==
    [][/\ \A u \in Owners \ db'.User :
            RowsOf(db', u) = NoRows /\ RowsOf(view', u) = NoRows
       /\ db'.User # db.User =>
            \A o \in db'.User : RowsOf(db', o) = RowsOf(db, o)]_vars

\* C21, its case: the user whose source was being stepped was deleted before
\* the step was saved, and the save has run to its COMMIT
C21_Witness ==
    /\ last_done = Some(<<"u1", "dimensions">>)
    /\ "u1" \notin db.User
    /\ "u2" \in db.User
    /\ RowsOf(db, "u2") # NoRows
    /\ pc = "select"
    /\ nsteps = 1
    /\ nrestarts = 0
    /\ Some(persisted[<<"u1", "dimensions">>]) =
         TheSource(MergedStore, "u1", "dimensions").task_json

\* the Merge rows of u1 in the database that was read
ReadMerges == {m \in ReadStores[applied.n].Merge : m.owner = "u1"}

\* C22: two publications of different sources that a Merge row links are
\* one entry of the result, which names both sources; and an entry names
\* two sources only where a Merge row links publications of the two
C22_MergedAreOneEntry ==
    (applied.fn = "get_publications" /\ Len(applied.out) = 1) =>
        /\ \A m \in ReadMerges :
              \E e \in applied.out[1] : {m.source_a, m.source_b} \subseteq e.sources
        /\ \A e \in applied.out[1] : \A a, b \in e.sources :
              a # b => \E m \in ReadMerges : {m.source_a, m.source_b} = {a, b}

\* the COMMIT of the step that failed on top of five failures, for a row
\* that is still there; what is then stored carries the counter `e`
SixthFailureStored(e) ==
    (/\ pc = "save_commit" /\ pc' = "select" /\ nrestarts' = nrestarts
     /\ invoked.failed /\ invoked.error = 5
     /\ HasSource(db', Get(source).owner, Get(source).key)) =>
        LET row == TheSource(db', Get(source).owner, Get(source).key)
        IN  /\ step.delay = 24 * 60 * 60
            /\ row.due >= now + step.delay - (step.delay \div 20) - 1
            /\ row.due <= now + step.delay + (step.delay \div 20)
            /\ ~IsNone(row.task_json)
            /\ "_error" \in DOMAIN Get(row.task_json)
            /\ Get(row.task_json)["_error"] = e

C24_WindowPerRemote ==
    [][nlimited' # nlimited =>
        LET r == limited'.remote
            open == \/ r \notin DOMAIN accepted_at
                    \/ loop_time >= accepted_at[r] + fail_retry_delay
        IN  /\ limited'.ok <=> open
            /\ ~open => accepted_at'[r] = accepted_at[r]
            /\ open => accepted_at'[r] = loop_time
            /\ \A o \in DOMAIN accepted_at \ {r} :
                  /\ o \in DOMAIN accepted_at'
                  /\ accepted_at'[o] = accepted_at[o]
                  /\ loop_time < accepted_at[o] + fail_retry_delay =>
                        /\ o \in DOMAIN rate_limit_ip_to_due'
                        /\ rate_limit_ip_to_due'[o] = accepted_at[o] + fail_retry_delay]_vars

\* C24, its case: an address is refused inside its window while another
\* address has a window of its own, after a cleaning
C24_Witness ==
    /\ fail_retry_delay > 0
    /\ ~limited.ok
    /\ limited.remote \in DOMAIN accepted_at
    /\ loop_time > accepted_at[limited.remote]
    /\ \E o \in DOMAIN accepted_at \ {limited.remote} :
            loop_time < accepted_at[o] + fail_retry_delay
    /\ rate_limit_last_cleaned > 0

\* a non-empty string made only of the lowercase letters a to z
OnlyLowercase(username) ==
    /\ Len(username) > 0
    /\ \A i \in 1..Len(username) : username[i] \in LowercaseLetters

\* C25: registration answers 400 and creates no user for every username
\* that is not a non-empty string of lowercase letters, also when it starts
\* with lowercase letters and goes on with digits or other characters
C25_OnlyLowercaseRegistered ==
    (applied.fn = "register" /\ Len(applied.out) = 1
        /\ ~OnlyLowercase(Usernames[applied.n]))
    => /\ applied.out[1].status = 400
       /\ applied.out[1].users = RegisteredUsers

\* the row of a by_self publication with this id, and the edge of a citation
StoredBySelf(d, owner, key, id) ==
    \E r \in d.Publication :
        /\ r.owner = owner /\ r.source = key /\ r.by_self = 1
        /\ r.path = "pub/" \o filename_for(id)
StoredCites(d, owner, key, citing, cited) ==
    \E r \in d.Cites :
        /\ r.owner = owner /\ r.source = key
        /\ r.pub_path = "pub/" \o filename_for(cited)
        /\ r.cited_by = "pub/" \o filename_for(citing)

\* C26: after a cycle without error, of any adapter, every publication
\* the remote listed for the user is a by_self Publication, and every
\* citation the remote returned for one of them is a Cites edge from the
\* citing publication to that cited publication
C26_CycleStoresAll ==
    (cycle.adapter # "" /\ cycle.done /\ cycle.clean) =>
        /\ \A id \in cycle.listed :
                StoredBySelf(cycle.d, CycleOwner, cycle.adapter, id)
        /\ \A e \in cycle.returned :
                e[2] \in cycle.listed =>
                    StoredCites(cycle.d, CycleOwner, cycle.adapter, e[1], e[2])

\* the cursors the service hands out with the pages of a publication's
\* citations
CursorsFor(r, pub_id) ==
    {RemoteCitationsOf(r, pub_id, c).next_cursor : c \in {None, Some("k1")}} \ {None}

\* C27: in a pubs-then-cites adapter, a step at FetchCitations that leaves
\* pages of the first missing id keeps that id first, the id goes only with
\* its last page, a cursor is only sent with the publication it was given
\* for, and with no missing id the stage stored is null
C27_IdKeptWhilePagesRemain ==
    [][(/\ cycle.adapter = "dimensions"
        /\ cycle'.adapter = "dimensions"
        /\ cycle' # cycle
        /\ ~cycle'.failed
        /\ cycle.stage.variant = "FetchCitations") =>
        LET ids == cycle.stage.data["missing_pub_ids"]
            cursor == cycle.stage.data["cursor"]
        IN  IF ids = <<>>
            THEN TheSource(cycle'.d, CycleOwner, "dimensions").task_json = Some(JsonNull)
            ELSE LET page == RemoteCitationsOf(cycle.remote, Head(ids), cursor)
                     left == cycle'.stage.data["missing_pub_ids"]
                 IN  /\ cycle'.stage.variant = "FetchCitations"
                     /\ ~IsNone(page.next_cursor) => (left # <<>> /\ Head(left) = Head(ids))
                     /\ IsNone(page.next_cursor) => left = Tail(ids)
                     /\ \A a \in cycle'.asked :
                            ~IsNone(a[2]) => a[2] \in CursorsFor(cycle.remote, a[1])]_vars

\* C30: for every adapter, from the initial stage with a valid url and a
\* remote that raises no error, the steps reach the one that completes the
\* cycle (stage null, or the initial stage again)
C30_CycleCompletes ==
    (cycle.adapter # "" /\ ~cycle.faulty) ~> cycle.done

\* an update has written a source since the selection and has committed and
\* set the event, and the event is clear again: _wait_notify cleared it
WakeCleared ==
    /\ pending # {}
    /\ hpc = "idle"
    /\ ~crawl_notify

\* C28: a wake of update_source_fields is never lost: when the update
\* completes between the scheduler's selection and its wait, the scheduler
\* selects again before it steps, rather than clear the event and step the
\* row it had read
C28_WakeNotLost ==
    [][(pc = "wait_due" /\ pc' = "stepping") =>
        ~(WakeCleared /\ SourceKey(Get(source)) \in pending)]_vars

\* what a read on the shared connection finds of the step being saved:
\* nothing of it yet, or all of it
StepUnseenOrWhole ==
    \/ view = db
    \/ StepStored(view, Get(source), step, now)

\* C29: while the transaction of save_crawler_step is open, a read sees
\* none or all of the step's rows, and a write transaction that another
\* task starts on the connection does not fail and is not part of the
\* step's transaction
C29_OpenStepIsolated ==
    [][/\ (txn' = "crawl" /\ pc' \in SavePhases) => StepUnseenOrWhole'
       /\ (txn = "crawl" /\ nrequests' # nrequests) =>
            (hpc' = "commit" /\ txn' = "http")]_vars

\* a stored task_json without _error
NoErrorIn(task_json) ==
    \/ IsNone(task_json)
    \/ "_error" \notin DOMAIN Get(task_json)

FailedFiveTimes == Crawled(Configured("u1", URL_A), "u1", 5, TRUE)

StepCommitted ==
    /\ pc = "save_commit" /\ pc' = "select" /\ nrestarts' = nrestarts
    /\ HasSource(db', Get(source).owner, Get(source).key)

\* the due stored is time.time() + delay within the jitter
DueAfter(due, t, secs) ==
    /\ due >= t + secs - (secs \div JITTER_DIVISOR) - 1
    /\ due <= t + secs + (secs \div JITTER_DIVISOR)

\* a failed step stores a due of the backoff delay from now
FailedStepBacksOff ==
    (StepCommitted /\ invoked.failed) =>
        DueAfter(TheSource(db', Get(source).owner, Get(source).key).due, now,
                 ERROR_DELAYS[Min(invoked.error + 1, Len(ERROR_DELAYS) - 1) + 1])

CrawledThrice == Crawled(Configured("u1", URL_A), "u1", 3, FALSE)

C33_CompletingStepWaitsADay ==
    (cycle.adapter # "" /\ cycle.done) => cycle.delay >= 24 * 60 * 60

\* the row of the source that the cycle steps
CycleRow == TheSource(cycle.d, CycleOwner, cycle.adapter)

\* C34: after a step that returned no next stage the row holds null, the
\* state read from it is None and the next step would run the adapter's
\* initial stage; such a Step, built without a delay, carries one week
C34_NullStageRestarts ==
    (cycle.adapter # "" /\ CycleRow.task_json = Some(JsonNull)) =>
        /\ IsNone(LoadState(CycleRow.task_json))
        /\ StateOf(cycle.adapter, LoadState(CycleRow.task_json)).stage
                = InitialStageOf(cycle.adapter)
        /\ cycle.stage = InitialStageOf(cycle.adapter)
        /\ cycle.delay = 7 * 24 * 60 * 60

\* C34, its case: the Dimensions cycle has ended with Step()
C34_Witness ==
    /\ cycle.adapter = "dimensions"
    /\ cycle.done
    /\ CycleRow.task_json = Some(JsonNull)
    /\ cycle.stage = FetchAuthors
    /\ cycle.delay = FULL_CYCLE_DELAY

\* the stages whose step asks the remote for one page of a listing
Paginating(stage) ==
    \/ stage.variant \in {"FetchPublications", "academics.FetchPublications",
                          "academics.FetchCitations"}
    \/ stage.variant = "FetchCitations" /\ stage.data["missing_pub_ids"] # <<>>

\* the next stage asks for a page of the listing that `stage` was in
SamePagination(stage, next) ==
    /\ next.variant = stage.variant
    /\ stage.variant = "FetchCitations" =>
            /\ next.data["missing_pub_ids"] # <<>>
            /\ Head(next.data["missing_pub_ids"]) = Head(stage.data["missing_pub_ids"])

\* the page that the step at the cycle's stage is answered with is empty
EmptyBatch ==
    LET answer == RemoteAnswer(cycle.adapter, cycle.remote, CycleRow.values_json,
                               cycle.stage)
    IN  answer.listed = {} /\ answer.returned = {}

\* C35: a step of a paginating stage that is answered with zero records
\* returns a next stage that is not another request of the same pagination
C35_EmptyBatchEndsPagination ==
    [][(/\ cycle.adapter # ""
        /\ Paginating(cycle.stage)
        /\ EmptyBatch
        /\ ~cycle'.failed) => ~SamePagination(cycle.stage, cycle'.stage)]_vars

\* the value stored for a field of a user's source, if any
StoredValue(d, username, src, k) ==
    IF /\ HasSource(d, username, src)
       /\ k \in DOMAIN TheSource(d, username, src).values_json
    THEN Some(TheSource(d, username, src).values_json[k])
    ELSE None

\* an unknown source, an unknown field, or a value that fails validation
Refused(src, k, value) ==
    \/ src \notin CRAWLERS
    \/ k # "url"
    \/ value # URL_EMPTY /\ ~Validates(src, k, value)

\* C36: after an update of the profile every Source row's key is a
\* registered adapter and every non-empty stored value validates; a field
\* of the request with an unknown source, an unknown field or an invalid
\* value is left as it was and reported, the other fields are written
C36_OnlyValidatedStored ==
    (applied.fn = "update_source_fields" /\ Len(applied.out) = 1) =>
        LET req == ProfileRequests[applied.n]
            before == ProfileStores[Get(applied.e)]
            o == applied.out[1]
        IN  /\ \A r \in o.d.Source :
                    /\ r.key \in CRAWLERS
                    /\ \A k \in DOMAIN r.values_json :
                            r.values_json[k] # URL_EMPTY =>
                                Validates(r.key, k, r.values_json[k])
            /\ \A src \in DOMAIN req : \A k \in DOMAIN req[src] :
                    IF Refused(src, k, req[src][k])
                    THEN /\ <<src, k>> \in o.errors
                         /\ StoredValue(o.d, "u1", src, k)
                                = StoredValue(before, "u1", src, k)
                    ELSE StoredValue(o.d, "u1", src, k) = Some(req[src][k])

\* C37: at most one token authenticates as a user: after a login only the
\* token it issued resolves to the user, and after a logout or a deletion
\* none does
C37_OneTokenPerUser ==
    applied.fn = "users" =>
        LET st == applied.out[1]
        IN  /\ \A username \in Accounts : Cardinality(TokensOf(st, username)) <= 1
            /\ ~IsNone(applied.e) =>
                    LET call == Get(applied.e)
                    IN  TokensOf(st, call.username) =
                            IF call.op = "login" THEN {call.token} ELSE {}

\* the stage object given to the step of the cycle, as the call leaves it;
\* the stages of the Academics adapter carry numbers and strings only, and
\* of the Scholar adapter only FetchFirst, without fields, is ever built
StageAfter(fails) ==
    IF cycle.adapter = "dimensions"
    THEN DimensionsStageAfter(cycle.remote, CycleRow.values_json, cycle.stage, fails)
    ELSE cycle.stage

\* C38: a step leaves the stage it was given, lists included, as it was,
\* whether it returns or raises, and the step after a failed one is given
\* a stage equal to that of the failed call
C38_StepLeavesStage ==
    [][/\ \A fails \in BOOLEAN : StageAfter(fails) = cycle.stage
       /\ cycle'.failed => cycle'.stage = cycle.stage]_vars

\* C38, its case: a step at FetchCitations with its list of publications
\* has failed, and the retry is at FetchCitations with that list
C38_Witness ==
    /\ cycle.adapter = "dimensions"
    /\ cycle.failed
    /\ cycle.stage.variant = "FetchCitations"
    /\ Len(cycle.stage.data["missing_pub_ids"]) = 2
    /\ cycle.listed # {}

\* the four tables that save_crawler_step inserts into
RecordTables(d) == <<d.Author, d.Publication, d.PublicationAuthors, d.Cites>>

\* `if self.id:`
Identified(x) == ~IsNone(x.id) /\ Get(x.id) # ""

\* C39: the step saved a second time leaves the four tables as the first
\* save left them, and no record with an id has the path of a record
\* without one
C39_SavedTwiceIsSavedOnce ==
    (applied.fn = "save_crawler_step" /\ Len(applied.out) = 2) =>
        LET st == fix_authors(SaveSteps[applied.n])
            ps == adapt_step_publications(st)
        IN  /\ RecordTables(applied.out[2]) = RecordTables(applied.out[1])
            /\ \A i, j \in 1..Len(ps) :
                    (Identified(ps[i].pub) /\ ~Identified(ps[j].pub)) =>
                        PubPath(ps[i].pub) # PubPath(ps[j].pub)
            /\ \A i, j \in 1..Len(st.authors) :
                    (Identified(st.authors[i]) /\ ~Identified(st.authors[j])) =>
                        AuthorPath(st.authors[i]) # AuthorPath(st.authors[j])

\* C39, its case: a step with records of all four kinds, with and without
\* id, has been saved twice, and the first save wrote rows to every table
C39_Witness ==
    /\ applied.fn = "save_crawler_step"
    /\ Len(applied.out) = 2
    /\ applied.n = Len(SaveSteps)
    /\ LET before == SaveStores[Get(applied.e)]
       IN  \A t \in 1..4 :
                /\ RecordTables(applied.out[1])[t] # RecordTables(before)[t]
                /\ RecordTables(applied.out[2])[t] # {}
    /\ \E r \in applied.out[2].Publication : r.path = "pub/uniden/sha256(T1)"
    /\ \E r \in applied.out[2].Publication : r.path = "pub/sha256(T1)"

\* the longest that _crawl can take from here to its next read of the
\* soonest-due row when no event is set: what is left of the wait, and the
\* call of the adapter where one follows (the statements of
\* save_crawler_step take no time here)
UntilRead ==
    CASE pc = "selected" ->
            IF IsNone(source) \/ Get(source).due - now > MAX_SLEEP THEN MAX_SLEEP
            ELSE Max(Get(source).due - now, 0) + RequestTime
      [] pc = "wait_idle" -> Max(deadline - now, 0)
      [] pc = "wait_due" -> Max(deadline - now, 0) + RequestTime
      [] pc = "stepping" -> RequestTime
      [] OTHER -> 0

\* no wait is longer than MAX_SLEEP, and while _crawl runs the next read is
\* at most MAX_SLEEP and one call of an adapter away
WaitsCapped ==
    /\ pc \in {"wait_idle", "wait_due"} => deadline - now <= MAX_SLEEP
    /\ pc # "exited" => UntilRead <= MAX_SLEEP + RequestTime

\* C40: a row that is due is read within MAX_SLEEP and the duration of one
\* step, without any wake signal: the scheduler is never further than that
\* from its next read of the soonest-due row
C40_DueRowReadSoon ==
    (\E r \in db.Source : r.due <= now) =>
        /\ pc # "exited"
        /\ UntilRead <= MAX_SLEEP + RequestTime

=============================================================================
